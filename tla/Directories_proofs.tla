------------------------- MODULE Directories_proofs --------------------------
(***************************************************************************)
(* Proofs about the cache of objects and listings, and the callbacks of a  *)
(* directory and of its files that use it, for any threads, files and      *)
(* circumstances: first the operations by themselves (ObjectCache), then   *)
(* with the callbacks (Directories), whose steps are an operation's step   *)
(* or leave the caches alone.                                              *)
(***************************************************************************)
EXTENDS Directories, TLAPS

Looking == {"positive", "ask", "parent", "ask parent", "fill"}
Listing_ == {"list positive", "list ask", "list fill", "list failed"}
Dropping == {"drop head", "drop list"}

Calls == {"none", "headObject", "listObjects", "listDisplayObjects",
          "putObject", "copyObject", "deleteObject", "deleteObjects"}

Places == {"idle", "next"} \cup Looking \cup Listing_ \cup Dropping

Operation ==
  [call : Calls, locked : SUBSET (Keys \cup {Top}), at : Places,
   look : Keys \cup {Top}, got : Versions, listing : SUBSET Keys, todo : SUBSET Keys, drop : Seq(Keys)]

(* what the steps of an operation need of it                                *)
OperationOK(o) ==
  /\ o \in Operation
  /\ o.at = "idle" => o = Idle
  /\ o.at \in Looking => o.look \in Keys
  /\ o.at \in {"parent", "ask parent"} => o.look \in Dirs
  /\ o.at \in Listing_ => o.look \in Lists
  /\ o.at = "list fill" => \A k \in o.listing : Parent[k] = o.look
  /\ o.at \in Dropping => o.drop # <<>>

StoreOK == store \in [Keys -> Versions] /\ \A d \in Dirs : store[d] # 2

(* coSet keeps what is cached                                               *)
HeadOK ==
  /\ headPositive = [k \in DOMAIN headPositive |-> headPositive[k]]
  /\ DOMAIN headPositive \subseteq Keys
  /\ \A k \in DOMAIN headPositive : headPositive[k] \in 1 .. 2
  /\ headNegative \subseteq Keys

ListOK ==
  /\ listPositive = [d \in DOMAIN listPositive |-> listPositive[d]]
  /\ DOMAIN listPositive \subseteq Lists
  /\ \A d \in DOMAIN listPositive : listPositive[d] \subseteq {k \in Keys : Parent[k] = d}
  /\ listNegative \subseteq Lists

OpsOK ==
  /\ op \in [Threads -> Operation]
  /\ \A t \in Threads : OperationOK(op[t])

Apart == \A t, u \in Threads : t # u => op[t].locked \cap op[u].locked = {}

Types == StoreOK /\ HeadOK /\ ListOK /\ OpsOK /\ Apart /\ world \in Worlds

(* a change of k has not reached the head cache yet                         *)
Pending(k) ==
  \E t \in Threads :
    \/ op[t].at = "drop head" /\ k \in Range(op[t].drop)
    \/ op[t].at = "drop list" /\ k \in Range(Tail(op[t].drop))

(* what is cached of k, and what will be                                    *)
HeadRight(k) ==
  /\ k \in DOMAIN headPositive => headPositive[k] = store[k]
  /\ k \in headNegative => store[k] = 0
  /\ \A t \in Threads : op[t].at = "fill" /\ op[t].look = k => op[t].got = store[k]

HeadsRight == \A k \in Files : ~Pending(k) /\ <<"head", k>> \notin doubt => HeadRight(k)

Shows(listing, k) ==
  /\ store[k] # 0 => k \in listing
  /\ k \in Files \cap listing => store[k] # 0

ListRight(d, k) ==
  /\ d \in DOMAIN listPositive => Shows(listPositive[d], k)
  /\ \A t \in Threads : op[t].at = "list fill" /\ op[t].look = d => Shows(op[t].listing, k)

ListingsRight ==
  \A k \in Keys : Settled(k) /\ <<"list", Parent[k]>> \notin doubt => ListRight(Parent[k], k)

Inv == Types /\ HeadsRight /\ ListingsRight

------------------------------------------------------------------------------
LEMMA IdleOK == OperationOK(Idle)
  <1>1. Idle.drop \in Seq(Keys)
    BY DEF Idle
  <1>2. /\ Idle.call \in Calls /\ Idle.locked = {} /\ Idle.at = "idle" /\ Idle.look = Top
        /\ Idle.got \in Versions /\ Idle.listing = {} /\ Idle.todo = {}
    BY DEF Idle, Versions, Calls
  <1>3. Idle = [call |-> Idle.call, locked |-> Idle.locked, at |-> Idle.at, look |-> Idle.look, got |-> Idle.got,
                listing |-> Idle.listing, todo |-> Idle.todo, drop |-> Idle.drop]
    BY DEF Idle
  <1>4. Idle \in Operation
    BY <1>1, <1>2, <1>3 DEF Operation, Places
  <1> QED
    BY <1>4 DEF OperationOK, Idle, Looking, Listing_, Dropping

LEMMA InitInv == Init => Inv
  <1> SUFFICES ASSUME Init PROVE Inv
    OBVIOUS
  <1>1. Types
    <2>1. StoreOK
      BY DEF Init, StoreOK, Versions, Keys
    <2>2. HeadOK /\ ListOK
      BY DEF Init, HeadOK, ListOK
    <2>3. OpsOK /\ Apart
      BY IdleOK DEF Init, OpsOK, Apart, OperationOK, Idle
    <2> QED
      BY <2>1, <2>2, <2>3 DEF Types, Init
  <1>2. HeadsRight /\ ListingsRight
    <2>1. /\ DOMAIN headPositive = {} /\ headNegative = {} /\ DOMAIN listPositive = {}
          /\ \A t \in Threads : op[t].at = "idle"
      BY DEF Init, Idle
    <2> QED
      BY <2>1 DEF HeadsRight, HeadRight, ListingsRight, ListRight
  <1> QED
    BY <1>1, <1>2 DEF Inv

(* A thread goes on, and takes no lock of another one.                      *)
LEMMA OneGoesOn ==
  ASSUME OpsOK, Apart, NEW t \in Threads, NEW o, OperationOK(o),
         op' = [op EXCEPT ![t] = o], o.locked \subseteq op[t].locked \/ Free(o.locked)
  PROVE  OpsOK' /\ Apart'
  <1>1. o \in Operation
    BY DEF OperationOK
  <1>2. OpsOK'
    BY <1>1 DEF OpsOK
  <1>3. Apart'
    BY <1>1 DEF OpsOK, Apart, Free, Operation
  <1> QED
    BY <1>2, <1>3

(* While no change is on its way through the caches, or begins, it is       *)
(* pending what was pending.                                                *)
LEMMA NothingDropped ==
  ASSUME OpsOK, NEW t \in Threads, NEW o, op' = [op EXCEPT ![t] = o],
         op[t].at \notin Dropping, o.at \notin Dropping
  PROVE  /\ \A k : Pending(k)' <=> Pending(k)
         /\ \A k : Settled(k)' <=> Settled(k)
  BY DEF OpsOK, Pending, Settled, Dropping

(* A step of a thread that changes neither the bucket nor the caches does   *)
(* no harm when what it will fill in is right.                              *)
LEMMA Undisturbed ==
  ASSUME Inv, NEW t \in Threads, NEW o, op' = [op EXCEPT ![t] = o],
         OperationOK(o), o.locked \subseteq op[t].locked \/ Free(o.locked),
         op[t].at \notin Dropping, o.at \notin Dropping,
         UNCHANGED <<store, head, list, world>>, doubt \subseteq doubt',
         o.at = "fill" /\ o.look \in Files /\ <<"head", o.look>> \notin doubt' => o.got = store[o.look],
         o.at = "list fill" => \A k \in Keys : Parent[k] = o.look => Shows(o.listing, k)
  PROVE  Inv'
  <1>1. Types'
    <2>1. OpsOK' /\ Apart'
      BY OneGoesOn DEF Inv, Types
    <2>2. StoreOK' /\ (world \in Worlds)'
      BY DEF Inv, Types, StoreOK
    <2>3. HeadOK'
      BY DEF Inv, Types, HeadOK, head
    <2>4. ListOK'
      BY DEF Inv, Types, ListOK, list
    <2> QED
      BY <2>1, <2>2, <2>3, <2>4 DEF Types
  <1>2. \A k : /\ Pending(k)' <=> Pending(k)
               /\ Settled(k)' <=> Settled(k)
    BY NothingDropped DEF Inv, Types
  <1>3. HeadsRight'
    <2> SUFFICES ASSUME NEW k \in Files, ~Pending(k)', <<"head", k>> \notin doubt'
                 PROVE  HeadRight(k)'
      BY DEF HeadsRight
    <2>1. HeadRight(k)
      BY <1>2 DEF Inv, HeadsRight
    <2>2. o.at = "fill" /\ o.look = k => o.got = store[k]
      OBVIOUS
    <2> QED
      BY <2>1, <2>2 DEF HeadRight, head, Inv, Types, OpsOK
  <1>4. ListingsRight'
    <2> SUFFICES ASSUME NEW k \in Keys, Settled(k)', <<"list", Parent[k]>> \notin doubt'
                 PROVE  ListRight(Parent[k], k)'
      BY DEF ListingsRight
    <2>1. ListRight(Parent[k], k)
      BY <1>2 DEF Inv, ListingsRight
    <2>2. o.at = "list fill" /\ o.look = Parent[k] => Shows(o.listing, k)
      OBVIOUS
    <2> QED
      BY <2>1, <2>2 DEF ListRight, Shows, list, Inv, Types, OpsOK
  <1> QED
    BY <1>1, <1>3, <1>4 DEF Inv

LEMMA FoundOK ==
  ASSUME NEW o \in Operation
  PROVE  OperationOK(Found(o)) /\ Found(o).at \in {"idle", "next"} /\ Found(o).locked \subseteq o.locked
  <1>1. CASE o.todo = {}
    BY <1>1, IdleOK DEF Found, Idle
  <1>2. CASE o.todo # {}
    <2>1. Found(o) = [o EXCEPT !.at = "next", !.look = Top, !.got = 0]
      BY <1>2 DEF Found
    <2>2. Found(o) = [call |-> o.call, locked |-> o.locked, at |-> "next", look |-> Top, got |-> 0,
                      listing |-> o.listing, todo |-> o.todo, drop |-> o.drop]
      BY <2>1 DEF Operation
    <2>3. Found(o) \in Operation
      BY <2>2 DEF Operation, Versions, Places
    <2> QED
      BY <2>2, <2>3 DEF OperationOK, Looking, Listing_, Dropping
  <1> QED
    BY <1>1, <1>2

(* A step of a thread as a whole                                            *)
LEMMA Known ==
  ASSUME Inv, NEW t \in Threads
  PROVE  OperationOK(op[t]) /\ op[t] \in Operation /\ op \in [Threads -> Operation]
  BY DEF Inv, Types, OpsOK

LEMMA Fields ==
  ASSUME NEW o \in Operation
  PROVE  /\ o.call \in Calls /\ o.locked \in SUBSET (Keys \cup {Top}) /\ o.at \in Places
         /\ o.look \in Keys \cup {Top} /\ o.got \in Versions /\ o.listing \in SUBSET Keys
         /\ o.todo \in SUBSET Keys /\ o.drop \in Seq(Keys)
  BY DEF Operation

Begun(call, locked, look, at, drop) ==
  [call |-> call, locked |-> locked, at |-> at, look |-> look, got |-> 0,
   listing |-> {}, todo |-> {}, drop |-> drop]

LEMMA BegunOK ==
  ASSUME NEW call \in Calls, NEW locked \in SUBSET (Keys \cup {Top}), NEW look \in Keys \cup {Top},
         NEW at \in Places, NEW drop \in Seq(Keys)
  PROVE  /\ Begun(call, locked, look, at, drop) \in Operation
         /\ Begun(call, locked, look, at, drop).locked = locked
         /\ Begun(call, locked, look, at, drop).at = at
         /\ Begun(call, locked, look, at, drop).look = look
         /\ Begun(call, locked, look, at, drop).drop = drop
  <1>1. 0 \in Versions /\ {} \in SUBSET Keys
    BY DEF Versions
  <1> QED
    BY <1>1 DEF Begun, Operation

(* an operation o that goes on elsewhere                                    *)
With(o, at, look, got) ==
  [call |-> o.call, locked |-> o.locked, at |-> at, look |-> look, got |-> got,
   listing |-> o.listing, todo |-> o.todo, drop |-> o.drop]

LEMMA WithOK ==
  ASSUME NEW o \in Operation, NEW at \in Places, NEW look \in Keys \cup {Top}, NEW got \in Versions
  PROVE  /\ With(o, at, look, got) \in Operation
         /\ With(o, at, look, got).at = at
         /\ With(o, at, look, got).look = look
         /\ With(o, at, look, got).got = got
         /\ With(o, at, look, got).locked = o.locked
         /\ With(o, at, look, got).listing = o.listing
         /\ With(o, at, look, got).drop = o.drop
  BY DEF With, Operation

LEMMA LooksAt ==
  ASSUME NEW o \in Operation, NEW k, NEW a, NEW p, p = [o EXCEPT !.look = k, !.at = a]
  PROVE  p = With(o, a, k, o.got)
  BY DEF With, Operation

LEMMA GotoWith ==
  ASSUME NEW t \in Threads, op \in [Threads -> Operation], NEW a, op' = [op EXCEPT ![t].at = a]
  PROVE  op' = [op EXCEPT ![t] = With(op[t], a, op[t].look, op[t].got)]
  <1>1. PICK o, p : o = op[t] /\ p = [o EXCEPT !.at = a]
    OBVIOUS
  <1>2. op' = [op EXCEPT ![t] = p]
    BY <1>1
  <1>3. o \in Operation
    BY <1>1
  <1>4. p = With(o, a, o.look, o.got)
    BY <1>1, <1>3 DEF With, Operation
  <1> QED
    BY <1>1, <1>2, <1>4

LEMMA GetWith ==
  ASSUME NEW t \in Threads, op \in [Threads -> Operation], NEW a, NEW v,
         op' = [op EXCEPT ![t] = [@ EXCEPT !.got = v, !.at = a]]
  PROVE  op' = [op EXCEPT ![t] = With(op[t], a, op[t].look, v)]
  <1>1. PICK o, p : o = op[t] /\ p = [o EXCEPT !.got = v, !.at = a]
    OBVIOUS
  <1>2. op' = [op EXCEPT ![t] = p]
    BY <1>1
  <1>3. o \in Operation
    BY <1>1
  <1>4. p = With(o, a, o.look, v)
    BY <1>1, <1>3 DEF With, Operation
  <1> QED
    BY <1>1, <1>2, <1>4

LEMMA DoesOK ==
  ASSUME NEW o \in Operation, NEW k, NEW p, p = [o EXCEPT !.todo = @ \ {k}]
  PROVE  p \in Operation /\ p.locked = o.locked
  <1>1. p = [call |-> o.call, locked |-> o.locked, at |-> o.at, look |-> o.look, got |-> o.got,
             listing |-> o.listing, todo |-> o.todo \ {k}, drop |-> o.drop]
    BY DEF Operation
  <1> QED
    BY <1>1 DEF Operation

------------------------------------------------------------------------------
LEMMA IsNegativeInv ==
  ASSUME Inv, NEW t \in Threads, NEW k \in Keys, IsNegative(t, k)
  PROVE  Inv'
  <1>1. PICK o :
          /\ o = IF op[t] = Idle THEN [Idle EXCEPT !.call = "headObject", !.locked = {k}]
                 ELSE [op[t] EXCEPT !.todo = @ \ {k}]
          /\ op' = [op EXCEPT ![t] = IF k \in headNegative THEN Found(o)
                                     ELSE [o EXCEPT !.look = k, !.at = "positive"]]
    BY DEF IsNegative
  <1>2. op[t] \in Operation /\ op[t].at \in {"idle", "next"}
    BY Known DEF IsNegative, Idle
  <1>3. o \in Operation /\ (o.locked \subseteq op[t].locked \/ Free(o.locked))
    <2>1. CASE op[t] = Idle
      <3>1. PICK c, a, d, ls : c = "headObject" /\ a = "idle" /\ d = <<>> /\ ls = {k}
        OBVIOUS
      <3>2. o = Begun(c, ls, Top, a, d)
        BY <1>1, <2>1, <3>1 DEF Idle, Begun
      <3>3. /\ c \in Calls /\ ls \in SUBSET (Keys \cup {Top}) /\ a \in Places
            /\ Top \in Keys \cup {Top} /\ d \in Seq(Keys)
        BY <3>1 DEF Calls, Places
      <3>4. o \in Operation /\ o.locked = ls
        BY <3>2, <3>3, BegunOK
      <3>5. o \in Operation /\ o.locked = {k}
        BY <3>1, <3>4
      <3>6. Free({k})
        BY <2>1 DEF IsNegative, Idle
      <3> QED
        BY <3>6, <3>5
    <2>2. CASE op[t] # Idle
      BY <1>1, <1>2, <2>2, DoesOK
    <2> QED
      BY <2>1, <2>2
  <1>4. PICK a : a = "positive"
    OBVIOUS
  <1> DEFINE q == With(o, a, k, o.got)
             p == IF k \in headNegative THEN Found(o) ELSE q
  <1>5. op' = [op EXCEPT ![t] = p]
    <2>1. [o EXCEPT !.look = k, !.at = a] = q
      BY <1>3, LooksAt
    <2> QED
      BY <1>1, <1>4, <2>1
  <1>6. /\ OperationOK(p) /\ p.at \in {"idle", "next", "positive"}
        /\ p.locked \subseteq o.locked
    <2>1. a \in Places /\ k \in Keys \cup {Top} /\ o.got \in Versions
      BY <1>3, <1>4, Fields DEF Places, Looking
    <2>2. q \in Operation /\ q.at = a /\ q.look = k /\ q.locked = o.locked
      BY <1>3, <2>1, WithOK
    <2> HIDE DEF q
    <2>3. OperationOK(q)
      BY <1>4, <2>2 DEF OperationOK, Looking, Listing_, Dropping
    <2> QED
      BY <1>3, <1>4, <2>2, <2>3, FoundOK
  <1>7. p.locked \subseteq op[t].locked \/ Free(p.locked)
    BY <1>3, <1>6 DEF Free
  <1>8. UNCHANGED <<store, head, list, world>> /\ doubt \subseteq doubt'
    BY DEF IsNegative
  <1> HIDE DEF p
  <1>9. op[t].at \notin Dropping /\ p.at \notin Dropping \cup {"list fill"} /\ p.at # "fill"
    BY <1>2, <1>6 DEF Dropping
  <1> QED
    BY <1>5, <1>6, <1>7, <1>8, <1>9, Undisturbed

LEMMA IsPositiveInv ==
  ASSUME Inv, NEW t \in Threads, IsPositive(t)
  PROVE  Inv'
  <1>1. PICK a : a = "ask"
    OBVIOUS
  <1> DEFINE k == op[t].look
             q == With(op[t], a, k, op[t].got)
             p == IF k \in DOMAIN headPositive THEN Found(op[t]) ELSE q
  <1>2. op[t] \in Operation /\ op[t].at = "positive" /\ k \in Keys
    BY Known DEF IsPositive, OperationOK, Looking
  <1>3. op' = [op EXCEPT ![t] = p]
    <2>1. [op[t] EXCEPT !.at = "ask"] = q
      BY <1>2, <1>1 DEF With, Operation
    <2> QED
      BY <2>1, Known DEF IsPositive
  <1>4. OperationOK(p) /\ p.at \in {"idle", "next", "ask"} /\ p.locked \subseteq op[t].locked
    <2>1. a \in Places /\ k \in Keys \cup {Top} /\ op[t].got \in Versions
      BY <1>2, <1>1, Fields DEF Places, Looking
    <2>2. q \in Operation /\ q.at = a /\ q.look = k /\ q.locked = op[t].locked
      BY <1>2, <2>1, WithOK
    <2> HIDE DEF q
    <2>3. OperationOK(q)
      BY <1>2, <1>1, <2>2 DEF OperationOK, Looking, Listing_, Dropping
    <2> QED
      BY <1>2, <1>1, <2>2, <2>3, FoundOK
  <1>5. UNCHANGED <<store, head, list, world>> /\ doubt \subseteq doubt'
    BY DEF IsPositive
  <1> HIDE DEF p
  <1>6. op[t].at \notin Dropping /\ p.at \notin Dropping \cup {"list fill"} /\ p.at # "fill"
    BY <1>2, <1>4 DEF Dropping
  <1> QED
    BY <1>3, <1>4, <1>5, <1>6, Undisturbed

(* The answer is right, or in doubt.                                        *)
LEMMA AskHeadInv ==
  ASSUME Inv, NEW t \in Threads, AskHead(t)
  PROVE  Inv'
  <1> DEFINE k == op[t].look
  <1>1. PICK v \in HeadAnswers(k), a \in {"parent", "fill"} :
          /\ a = IF v = 0 /\ k \in Dirs THEN "parent" ELSE "fill"
          /\ op' = [op EXCEPT ![t] = [@ EXCEPT !.got = v, !.at = a]]
          /\ doubt' = IF v = store[k] THEN doubt ELSE doubt \cup {<<"head", k>>}
    BY DEF AskHead
  <1> DEFINE p == With(op[t], a, k, v)
  <1>2. op[t] \in Operation /\ op[t].at = "ask" /\ k \in Keys
    BY Known DEF AskHead, OperationOK, Looking
  <1>3. op' = [op EXCEPT ![t] = [@ EXCEPT !.got = v, !.at = a]]
    BY <1>1
  <1>4. op' = [op EXCEPT ![t] = p]
    BY <1>3, Known, GetWith
  <1>5. v \in Versions /\ a \in Places /\ k \in Keys \cup {Top}
    <2>1. v \in Versions
      BY <1>2 DEF HeadAnswers, Inv, Types, StoreOK, Versions
    <2>2. a \in Places
      BY DEF Places, Looking
    <2> QED
      BY <1>2, <2>1, <2>2
  <1>6. p \in Operation /\ p.at = a /\ p.look = k /\ p.got = v /\ p.locked = op[t].locked
    BY <1>2, <1>5, WithOK
  <1> HIDE DEF p
  <1>7. OperationOK(p) /\ p.at \notin Dropping \cup {"list fill"} /\ op[t].at \notin Dropping
    BY <1>1, <1>2, <1>6 DEF OperationOK, Looking, Listing_, Dropping
  <1>8. UNCHANGED <<store, head, list, world>> /\ doubt \subseteq doubt'
    BY <1>1 DEF AskHead
  <1>9. <<"head", k>> \notin doubt' => v = store[k]
    BY <1>1
  <1> QED
    BY <1>4, <1>6, <1>7, <1>8, <1>9, Undisturbed

LEMMA AskParentCacheInv ==
  ASSUME Inv, NEW t \in Threads, AskParentCache(t)
  PROVE  Inv'
  <1> DEFINE k == op[t].look
  <1>1. PICK a, v : /\ op' = [op EXCEPT ![t] = [@ EXCEPT !.got = v, !.at = a]]
                    /\ a = "fill" \/ a = "ask parent"
                    /\ v = 0 \/ v = 1
    BY DEF AskParentCache
  <1>2. op' = [op EXCEPT ![t] = [@ EXCEPT !.got = v, !.at = a]]
    BY <1>1
  <1>3. a = "fill" \/ a = "ask parent"
    BY <1>1
  <1>4. v = 0 \/ v = 1
    BY <1>1
  <1> DEFINE p == With(op[t], a, k, v)
  <1>5. op[t] \in Operation /\ op[t].at = "parent" /\ k \in Dirs
    BY Known DEF AskParentCache, OperationOK, Looking
  <1>6. op' = [op EXCEPT ![t] = p]
    BY <1>2, Known, GetWith
  <1>7. a \in Places /\ v \in Versions /\ k \in Keys \cup {Top}
    <2>1. v \in Versions
      BY <1>4 DEF Versions
    <2>2. a \in Places /\ k \in Keys \cup {Top}
      BY <1>3, <1>5 DEF Places, Looking, Keys
    <2> QED
      BY <2>1, <2>2
  <1>8. p \in Operation /\ p.at = a /\ p.look = k /\ p.locked = op[t].locked
    BY <1>5, <1>7, WithOK
  <1> HIDE DEF p
  <1>9. OperationOK(p) /\ p.at \notin Dropping \cup {"list fill"} /\ op[t].at \notin Dropping
    BY <1>3, <1>5, <1>8 DEF OperationOK, Looking, Listing_, Dropping, Keys
  <1>10. UNCHANGED <<store, head, list, world>> /\ doubt \subseteq doubt'
    BY DEF AskParentCache
  <1>11. p.look \notin Files
    BY <1>5, <1>8, KeysApart
  <1> QED
    BY <1>6, <1>8, <1>9, <1>10, <1>11, Undisturbed

LEMMA AskParentInv ==
  ASSUME Inv, NEW t \in Threads, AskParent(t)
  PROVE  Inv'
  <1> DEFINE k == op[t].look
  <1>1. op[t] \in Operation /\ op[t].at = "ask parent" /\ k \in Dirs
    BY Known DEF AskParent, OperationOK, Looking
  <1>2. PICK a, zero, one : a = "fill" /\ zero = 0 /\ one = 1
    OBVIOUS
  <1>3. op[t].got \in Versions
    BY <1>1, Fields
  <1>4. zero \in Versions /\ one \in Versions
    BY <1>2 DEF Versions
  <1>5. PICK v \in Versions : op' = [op EXCEPT ![t] = With(op[t], a, k, v)]
    <2>1. CASE op' = [op EXCEPT ![t] = [@ EXCEPT !.got = IF Shown(k) THEN 1 ELSE 0, !.at = "fill"]]
      <3>1. PICK v \in Versions : v = IF Shown(k) THEN one ELSE zero
        BY <1>4
      <3>2. op' = [op EXCEPT ![t] = [@ EXCEPT !.got = v, !.at = a]]
        BY <1>2, <2>1, <3>1
      <3>3. op' = [op EXCEPT ![t] = With(op[t], a, k, v)]
        BY <3>2, Known, GetWith
      <3> QED
        BY <3>3
    <2>2. CASE op' = [op EXCEPT ![t].at = "fill"]
      <3>1. op' = [op EXCEPT ![t].at = a]
        BY <1>2, <2>2
      <3>2. op' = [op EXCEPT ![t] = With(op[t], a, k, op[t].got)]
        BY <3>1, Known, GotoWith
      <3> QED
        BY <1>3, <3>2
    <2> QED
      BY <2>1, <2>2 DEF AskParent
  <1> DEFINE p == With(op[t], a, k, v)
  <1>6. p \in Operation /\ p.at = a /\ p.look = k /\ p.locked = op[t].locked
    <2>1. a \in Places /\ k \in Keys \cup {Top}
      BY <1>1, <1>2 DEF Places, Looking, Keys
    <2>2. op[t] \in Operation
      BY <1>1
    <2> QED
      BY <2>1, <2>2, WithOK
  <1>7. op' = [op EXCEPT ![t] = p]
    BY <1>5
  <1> HIDE DEF p
  <1>8. OperationOK(p) /\ p.at \notin Dropping \cup {"list fill"} /\ op[t].at \notin Dropping
    BY <1>1, <1>2, <1>6 DEF OperationOK, Looking, Listing_, Dropping, Keys
  <1>9. UNCHANGED <<store, head, list, world>> /\ doubt \subseteq doubt'
    BY DEF AskParent
  <1>10. p.look \notin Files
    BY <1>1, <1>6, KeysApart
  <1> QED
    BY <1>6, <1>7, <1>8, <1>9, <1>10, Undisturbed

LEMMA FillHeadInv ==
  ASSUME Inv, NEW t \in Threads, FillHead(t)
  PROVE  Inv'
  <1> DEFINE k == op[t].look
             p == Found(op[t])
  <1>1. op[t] \in Operation /\ op[t].at = "fill" /\ k \in Keys
    BY Known DEF FillHead, OperationOK, Looking
  <1>2. op' = [op EXCEPT ![t] = p]
    BY DEF FillHead
  <1>3. OperationOK(p) /\ p.at \in {"idle", "next"} /\ p.locked \subseteq op[t].locked
    <2>1. op[t] \in Operation
      BY <1>1
    <2> QED
      BY <2>1, FoundOK
  <1> HIDE DEF p
  <1>4. p.at \notin Dropping \cup {"fill", "list fill"} /\ op[t].at \notin Dropping
    BY <1>1, <1>3 DEF Dropping
  <1>5. UNCHANGED <<store, list, world, doubt>>
    BY DEF FillHead
  <1>6. \/ /\ op[t].got # 0 /\ headNegative' = headNegative
           /\ headPositive' = [x \in DOMAIN headPositive \cup {k} |->
                                 IF x \in DOMAIN headPositive THEN headPositive[x] ELSE op[t].got]
        \/ op[t].got = 0 /\ headNegative' = headNegative \cup {k} /\ headPositive' = headPositive
    BY DEF FillHead, Emplaced
  <1>7. Types'
    <2>1. OpsOK' /\ Apart'
      BY <1>2, <1>3, OneGoesOn DEF Inv, Types
    <2>2. StoreOK' /\ (world \in Worlds)'
      BY <1>5 DEF Inv, Types, StoreOK
    <2>3. HeadOK'
      <3>1. op[t].got \in 0 .. 2
        BY <1>1 DEF Operation, Versions
      <3> QED
        BY <1>1, <1>6, <3>1 DEF Inv, Types, HeadOK
    <2>4. ListOK'
      BY <1>5 DEF Inv, Types, ListOK, list
    <2> QED
      BY <2>1, <2>2, <2>3, <2>4 DEF Types
  <1>8. \A x : /\ Pending(x)' <=> Pending(x)
               /\ Settled(x)' <=> Settled(x)
    BY <1>2, <1>4, NothingDropped DEF Inv, Types
  <1>9. HeadsRight'
    <2> SUFFICES ASSUME NEW f \in Files, ~Pending(f)', <<"head", f>> \notin doubt'
                 PROVE  HeadRight(f)'
      BY DEF HeadsRight
    <2>1. HeadRight(f)
      BY <1>5, <1>8 DEF Inv, HeadsRight
    <2>2. f = k => op[t].got = store[f]
      BY <1>1, <2>1 DEF HeadRight
    <2>3. (f \in DOMAIN headPositive => headPositive[f] = store[f])' /\ (f \in headNegative => store[f] = 0)'
      BY <1>5, <1>6, <2>1, <2>2 DEF HeadRight
    <2>4. (\A u \in Threads : op[u].at = "fill" /\ op[u].look = f => op[u].got = store[f])'
      BY <1>2, <1>4, <1>5, <2>1 DEF HeadRight, Inv, Types, OpsOK
    <2> QED
      BY <2>3, <2>4 DEF HeadRight
  <1>10. ListingsRight'
    <2> SUFFICES ASSUME NEW f \in Keys, Settled(f)', <<"list", Parent[f]>> \notin doubt'
                 PROVE  ListRight(Parent[f], f)'
      BY DEF ListingsRight
    <2>1. ListRight(Parent[f], f)
      BY <1>5, <1>8 DEF Inv, ListingsRight
    <2> QED
      BY <2>1, <1>2, <1>4, <1>5 DEF ListRight, Shows, list, Inv, Types, OpsOK
  <1> QED
    BY <1>7, <1>9, <1>10 DEF Inv

------------------------------------------------------------------------------
LEMMA ListIsNegativeInv ==
  ASSUME Inv, NEW t \in Threads, NEW d \in Lists, NEW call, call \in {"listObjects", "listDisplayObjects"},
         ListIsNegative(t, d, call)
  PROVE  Inv'
  <1>1. PICK a, ls : a = "list positive" /\ ls = {d}
    OBVIOUS
  <1>2. <<>> \in Seq(Keys)
    OBVIOUS
  <1>3. PICK seq \in Seq(Keys) : seq = <<>>
    BY <1>2
  <1> DEFINE p == Begun(call, ls, d, a, seq)
  <1>4. op' = [op EXCEPT ![t] = p]
    <2>1. PICK q : q = [Idle EXCEPT !.call = call, !.locked = {d}, !.look = d, !.at = "list positive"]
      OBVIOUS
    <2>2. q = p
      BY <1>1, <1>3, <2>1 DEF Idle, Begun
    <2>3. op' = [op EXCEPT ![t] = q]
      BY <2>1 DEF ListIsNegative
    <2> QED
      BY <2>2, <2>3
  <1>5. call \in Calls /\ ls \in SUBSET (Keys \cup {Top}) /\ d \in Keys \cup {Top} /\ a \in Places /\ seq \in Seq(Keys)
    <2>1. d \in Keys \cup {Top}
      BY DEF Lists, Keys
    <2>2. call \in Calls /\ a \in Places
      BY <1>1 DEF Calls, Places, Listing_
    <2> QED
      BY <1>1, <2>1, <2>2
  <1>6. p \in Operation /\ p.locked = ls /\ p.at = a /\ p.look = d
    BY <1>5, BegunOK
  <1> HIDE DEF p
  <1>7. OperationOK(p) /\ p.at \notin Dropping \cup {"fill", "list fill"}
    BY <1>1, <1>6 DEF OperationOK, Looking, Listing_, Dropping
  <1>8. Free(p.locked) /\ op[t].at \notin Dropping
    <2>1. Free(ls)
      BY <1>1 DEF ListIsNegative
    <2>2. op[t].at = "idle"
      BY DEF ListIsNegative, Idle
    <2> QED
      BY <1>6, <2>1, <2>2 DEF Dropping
  <1>9. UNCHANGED <<store, head, list, world>> /\ doubt \subseteq doubt'
    BY DEF ListIsNegative
  <1> QED
    BY <1>4, <1>7, <1>8, <1>9, Undisturbed

LEMMA ListedOK ==
  ASSUME Inv, NEW t \in Threads, op[t].look \in Lists, NEW shows, shows \subseteq Keys, Listed(t, shows)
  PROVE  \E p : /\ op' = [op EXCEPT ![t] = p]
                /\ OperationOK(p) /\ p.at \in {"idle", "next"} /\ p.locked \subseteq op[t].locked
  <1>1. PICK o, todo : o = op[t] /\ todo = shows \cup ({o.look} \ {Top})
    OBVIOUS
  <1>2. o \in Operation
    BY <1>1, Known
  <1>3. todo \subseteq Keys
    BY <1>1 DEF Lists, Keys
  <1>4. CASE op' = [op EXCEPT ![t] = Idle]
    <2>1. OperationOK(Idle) /\ Idle.at = "idle" /\ Idle.locked = {}
      BY IdleOK DEF Idle
    <2> QED
      BY <1>4, <2>1
  <1>5. CASE op' = [op EXCEPT ![t] = [@ EXCEPT !.at = "next", !.look = Top, !.listing = Idle.listing,
                                              !.todo = shows \cup ({op[t].look} \ {Top})]]
    <2>1. PICK p : p = [o EXCEPT !.at = "next", !.look = Top, !.listing = {}, !.todo = todo]
      OBVIOUS
    <2>2. op' = [op EXCEPT ![t] = p]
      BY <1>1, <1>5, <2>1 DEF Idle
    <2>3. p = [call |-> o.call, locked |-> o.locked, at |-> "next", look |-> Top, got |-> o.got,
               listing |-> {}, todo |-> todo, drop |-> o.drop]
      BY <1>2, <2>1 DEF Operation
    <2>4. p \in Operation
      BY <1>2, <1>3, <2>3 DEF Operation, Places
    <2>5. OperationOK(p) /\ p.at = "next" /\ p.locked = o.locked
      BY <2>3, <2>4 DEF OperationOK, Looking, Listing_, Dropping
    <2> QED
      BY <1>1, <2>2, <2>5
  <1> QED
    BY <1>4, <1>5 DEF Listed

LEMMA ListIsPositiveInv ==
  ASSUME Inv, NEW t \in Threads, ListIsPositive(t)
  PROVE  Inv'
  <1> DEFINE d == op[t].look
  <1>1. op[t] \in Operation /\ op[t].at = "list positive" /\ d \in Lists
    BY Known DEF ListIsPositive, OperationOK, Listing_
  <1>2. \E p : /\ op' = [op EXCEPT ![t] = p]
               /\ OperationOK(p) /\ p.at \in {"idle", "next", "list ask"} /\ p.locked \subseteq op[t].locked
    <2>1. CASE d \in DOMAIN listPositive
      <3>1. listPositive[d] \subseteq Keys /\ d \in Lists
        BY <1>1, <2>1 DEF Inv, Types, ListOK
      <3>2. Listed(t, listPositive[d])
        BY <2>1 DEF ListIsPositive
      <3> QED
        BY <3>1, <3>2, ListedOK
    <2>2. CASE d \notin DOMAIN listPositive
      <3>1. PICK a : a = "list ask"
        OBVIOUS
      <3>2. op' = [op EXCEPT ![t].at = a]
        BY <2>2, <3>1 DEF ListIsPositive, Goto
      <3> DEFINE p == With(op[t], a, d, op[t].got)
      <3>3. op' = [op EXCEPT ![t] = p]
        BY <3>2, Known, GotoWith
      <3>4. op[t] \in Operation /\ a \in Places /\ d \in Keys \cup {Top} /\ op[t].got \in Versions
        BY <1>1, <3>1, Fields DEF Places, Listing_
      <3>5. p \in Operation /\ p.at = a /\ p.look = d /\ p.locked = op[t].locked
        BY <3>4, WithOK
      <3> HIDE DEF p
      <3>6. OperationOK(p)
        BY <1>1, <3>1, <3>5 DEF OperationOK, Looking, Listing_, Dropping
      <3> QED
        BY <3>1, <3>3, <3>5, <3>6
    <2> QED
      BY <2>1, <2>2
  <1>3. PICK p : /\ op' = [op EXCEPT ![t] = p]
                 /\ OperationOK(p) /\ p.at \in {"idle", "next", "list ask"} /\ p.locked \subseteq op[t].locked
    BY <1>2
  <1>4. p.at \notin Dropping \cup {"fill", "list fill"} /\ op[t].at \notin Dropping
    BY <1>1, <1>3 DEF Dropping
  <1>5. UNCHANGED <<store, head, list, world>> /\ doubt \subseteq doubt'
    BY DEF ListIsPositive
  <1> QED
    BY <1>3, <1>4, <1>5, Undisturbed

(* a listing shows what is there                                            *)
LEMMA ListingShows ==
  ASSUME NEW d
  PROVE  Listing(d) \subseteq Keys /\ \A k \in Keys : Parent[k] = d => Shows(Listing(d), k)
  <1>1. \A k \in Files, f \in Files : Parent[f] # k
    BY KeysApart, ParentKnown DEF Lists, Keys
  <1> QED
    BY <1>1 DEF Listing, Shows, Shown

LEMMA AskListInv ==
  ASSUME Inv, NEW t \in Threads, AskList(t)
  PROVE  Inv'
  <1> DEFINE d == op[t].look
  <1>1. op[t] \in Operation /\ op[t].at = "list ask" /\ d \in Lists
    BY Known DEF AskList, OperationOK, Listing_
  <1>2. UNCHANGED <<store, head, list, world>> /\ doubt \subseteq doubt' /\ op[t].at \notin Dropping
    BY <1>1 DEF AskList, Dropping
  <1>3. CASE op' = [op EXCEPT ![t] = [@ EXCEPT !.at = "list fill", !.listing = Listing(op[t].look)]]
    <2>1. PICK o, p : o = op[t] /\ p = [o EXCEPT !.at = "list fill", !.listing = Listing(o.look)]
      OBVIOUS
    <2>2. op' = [op EXCEPT ![t] = p]
      BY <1>3, <2>1
    <2>3. o \in Operation /\ o.look \in Lists
      BY <1>1, <2>1
    <2>4. p = [call |-> o.call, locked |-> o.locked, at |-> "list fill", look |-> o.look, got |-> o.got,
               listing |-> Listing(o.look), todo |-> o.todo, drop |-> o.drop]
      BY <2>1, <2>3 DEF Operation
    <2>5. p \in Operation
      BY <2>3, <2>4, ListingShows DEF Operation, Places, Listing_
    <2>6. \A k \in p.listing : Parent[k] = p.look
      BY <2>4 DEF Listing
    <2>7. OperationOK(p) /\ p.at = "list fill" /\ p.locked = op[t].locked
      BY <2>1, <2>3, <2>4, <2>5, <2>6 DEF OperationOK, Looking, Listing_, Dropping
    <2>8. \A k \in Keys : Parent[k] = p.look => Shows(p.listing, k)
      BY <2>4, ListingShows
    <2>9. p.at \notin Dropping \cup {"fill"}
      BY <2>7 DEF Dropping
    <2> QED
      BY <1>2, <2>2, <2>7, <2>8, <2>9, Undisturbed
  <1>4. CASE op' = [op EXCEPT ![t].at = "list failed"]
    <2>1. PICK a : a = "list failed"
      OBVIOUS
    <2>2. op' = [op EXCEPT ![t].at = a]
      BY <1>4, <2>1
    <2> DEFINE p == With(op[t], a, d, op[t].got)
    <2>3. op' = [op EXCEPT ![t] = p]
      BY <2>2, Known, GotoWith
    <2>4. op[t] \in Operation /\ a \in Places /\ d \in Keys \cup {Top} /\ op[t].got \in Versions
      BY <1>1, <2>1, Fields DEF Places, Listing_
    <2>5. p \in Operation /\ p.at = a /\ p.look = d /\ p.locked = op[t].locked
      BY <2>4, WithOK
    <2> HIDE DEF p
    <2>6. OperationOK(p) /\ p.at \notin Dropping \cup {"fill", "list fill"}
      BY <1>1, <2>1, <2>5 DEF OperationOK, Looking, Listing_, Dropping
    <2> QED
      BY <1>2, <2>3, <2>5, <2>6, Undisturbed
  <1> QED
    BY <1>3, <1>4 DEF AskList, Goto

LEMMA FillListInv ==
  ASSUME Inv, NEW t \in Threads, FillList(t)
  PROVE  Inv'
  <1> DEFINE d == op[t].look
  <1>1. op[t] \in Operation /\ op[t].at \in {"list fill", "list failed"} /\ d \in Lists
    BY Known DEF FillList, OperationOK, Listing_
  <1>2. op[t].listing \subseteq Keys /\ (op[t].at = "list fill" => \A k \in op[t].listing : Parent[k] = d)
    BY <1>1, Known, Fields DEF OperationOK
  <1>3. PICK p : /\ op' = [op EXCEPT ![t] = p]
                 /\ OperationOK(p) /\ p.at \in {"idle", "next"} /\ p.locked \subseteq op[t].locked
    <2>1. CASE Listed(t, op[t].listing)
      <3>1. op[t].listing \subseteq Keys /\ d \in Lists
        BY <1>1, <1>2
      <3> QED
        BY <2>1, <3>1, ListedOK
    <2>2. CASE op' = [op EXCEPT ![t] = Idle]
      <3>1. OperationOK(Idle) /\ Idle.at = "idle" /\ Idle.locked = {}
        BY IdleOK DEF Idle
      <3> QED
        BY <2>2, <3>1
    <2> QED
      BY <2>1, <2>2 DEF FillList
  <1>4. p.at \notin Dropping \cup {"fill", "list fill"} /\ op[t].at \notin Dropping
    BY <1>1, <1>3 DEF Dropping
  <1>5. UNCHANGED <<store, head, world, doubt>>
    BY DEF FillList
  <1>6. \/ /\ op[t].at = "list fill" /\ listNegative' = listNegative
           /\ listPositive' = [x \in DOMAIN listPositive \cup {d} |->
                                 IF x \in DOMAIN listPositive THEN listPositive[x] ELSE op[t].listing]
        \/ listNegative' = listNegative \cup {d} /\ listPositive' = listPositive
    BY DEF FillList, Emplaced
  <1>7. Types'
    <2>1. OpsOK' /\ Apart'
      BY <1>3, OneGoesOn DEF Inv, Types
    <2>2. StoreOK' /\ (world \in Worlds)'
      BY <1>5 DEF Inv, Types, StoreOK
    <2>3. HeadOK'
      BY <1>5 DEF Inv, Types, HeadOK, head
    <2>4. ListOK'
      BY <1>1, <1>2, <1>6 DEF Inv, Types, ListOK
    <2> QED
      BY <2>1, <2>2, <2>3, <2>4 DEF Types
  <1>8. \A x : /\ Pending(x)' <=> Pending(x)
               /\ Settled(x)' <=> Settled(x)
    BY <1>3, <1>4, NothingDropped DEF Inv, Types
  <1>9. HeadsRight'
    <2> SUFFICES ASSUME NEW f \in Files, ~Pending(f)', <<"head", f>> \notin doubt'
                 PROVE  HeadRight(f)'
      BY DEF HeadsRight
    <2>1. HeadRight(f)
      BY <1>5, <1>8 DEF Inv, HeadsRight
    <2> QED
      BY <2>1, <1>3, <1>4, <1>5 DEF HeadRight, head, Inv, Types, OpsOK
  <1>10. ListingsRight'
    <2> SUFFICES ASSUME NEW f \in Keys, Settled(f)', <<"list", Parent[f]>> \notin doubt'
                 PROVE  ListRight(Parent[f], f)'
      BY DEF ListingsRight
    <2>1. ListRight(Parent[f], f)
      BY <1>5, <1>8 DEF Inv, ListingsRight
    <2>2. (Parent[f] \in DOMAIN listPositive => Shows(listPositive[Parent[f]], f))'
      BY <1>5, <1>6, <2>1 DEF ListRight, Shows
    <2>3. (\A u \in Threads : op[u].at = "list fill" /\ op[u].look = Parent[f] => Shows(op[u].listing, f))'
      BY <1>3, <1>4, <1>5, <2>1 DEF ListRight, Shows, Inv, Types, OpsOK
    <2> QED
      BY <2>2, <2>3 DEF ListRight
  <1> QED
    BY <1>7, <1>9, <1>10 DEF Inv

------------------------------------------------------------------------------
Changing == {"putObject", "copyObject", "deleteObject", "deleteObjects"}

LEMMA ChangedOK ==
  ASSUME NEW call \in Changing, NEW keys \in Changes(call)
  PROVE  /\ keys \in Seq(Keys) /\ keys # <<>> /\ Range(keys) \subseteq Keys
         /\ keys[1] \in Range(keys)
         /\ call = "copyObject" => keys[2] \in Range(keys) \cap Files
         /\ Names(call, keys) \subseteq Keys \cup {Top}
  <1>1. \/ /\ \E k \in Keys : keys = <<k>>
           /\ call = "deleteObjects" => keys[1] \in Files
           /\ call # "copyObject"
        \/ \E k, l \in Files : keys = <<k, l>>
    BY DEF Changing, Changes, Keys
  <1>2. CASE \E k \in Keys : keys = <<k>>
    <2>1. PICK k \in Keys : keys = <<k>>
      BY <1>2
    <2>2. Range(keys) = {k} /\ keys[1] = k
      BY <2>1 DEF Range
    <2>3. keys \in Seq(Keys) /\ keys # <<>>
      BY <2>1
    <2>4. call # "copyObject" /\ (call = "deleteObjects" => k \in Files)
      BY <1>1, <2>1
    <2>5. Names(call, keys) \subseteq Keys \cup {Top}
      BY <2>2, <2>4, ParentKnown DEF Names, Keys, Lists
    <2> QED
      BY <2>2, <2>3, <2>4, <2>5
  <1>3. CASE \E k, l \in Files : keys = <<k, l>>
    <2>1. PICK k \in Files, l \in Files : keys = <<k, l>>
      BY <1>3
    <2>2. Range(keys) = {k, l} /\ keys[1] = k /\ keys[2] = l
      BY <2>1 DEF Range
    <2>3. keys \in Seq(Keys) /\ keys # <<>>
      BY <2>1 DEF Keys
    <2>4. Names(call, keys) \subseteq Keys \cup {Top}
      BY <2>2, ParentKnown DEF Names, Keys, Lists
    <2> QED
      BY <2>2, <2>3, <2>4 DEF Keys
  <1> QED
    BY <1>1, <1>2, <1>3

(* what a change makes of the bucket                                        *)
Changed(s, keys) ==
  /\ s \in [Keys -> Versions] /\ \A d \in Dirs : s[d] # 2
  /\ \A k \in Keys \ Range(keys) : s[k] = store[k]

LEMMA StoredOK ==
  ASSUME StoreOK, NEW call \in Changing, NEW keys \in Changes(call)
  PROVE  Changed(Stored(call, keys), keys)
  <1>1. /\ Range(keys) \subseteq Keys /\ keys[1] \in Range(keys)
        /\ call = "copyObject" => keys[2] \in Range(keys) \cap Files
    BY ChangedOK
  <1>2. \A k \in Keys : NewVersion(k) \in Versions /\ (k \in Dirs => NewVersion(k) # 2)
    BY DEF NewVersion, Versions
  <1>3. CASE call = "putObject"
    BY <1>1, <1>2, <1>3 DEF Stored, StoreOK, Changed
  <1>4. CASE call = "copyObject"
    BY <1>1, <1>2, <1>4, KeysApart DEF Stored, StoreOK, Changed
  <1>5. CASE call \in {"deleteObject", "deleteObjects"}
    <2>1. 0 \in Versions
      BY DEF Versions
    <2> QED
      BY <1>5, <2>1 DEF Stored, StoreOK, Changed, Keys
  <1> QED
    BY <1>3, <1>4, <1>5 DEF Changing

LEMMA SparingOK ==
  ASSUME StoreOK, NEW s, NEW keys, Changed(s, keys), NEW spared
  PROVE  Changed(Sparing(s, spared), keys)
  BY DEF StoreOK, Changed, Sparing, Keys

LEMMA ChangeInv ==
  ASSUME Inv, NEW t \in Threads, NEW call \in Changing, NEW keys \in Changes(call), Change(t, call, keys)
  PROVE  Inv'
  <1>1. /\ keys \in Seq(Keys) /\ keys # <<>> /\ Range(keys) \subseteq Keys
        /\ Names(call, keys) \subseteq Keys \cup {Top}
    BY ChangedOK
  <1>2. Changed(store', keys)
    BY StoredOK, SparingOK DEF Change, Inv, Types
  <1>3. UNCHANGED <<head, list, world, doubt>> /\ Free(Names(call, keys))
    BY DEF Change
  <1>4. op[t].at = "idle"
    BY DEF Change, Idle
  <1>5. PICK a : a = "drop head"
    OBVIOUS
  <1> DEFINE p == Begun(call, Names(call, keys), Top, a, keys)
  <1>6. op' = [op EXCEPT ![t] = p]
    <2>1. PICK q : q = [Idle EXCEPT !.call = call, !.locked = Names(call, keys), !.at = "drop head", !.drop = keys]
      OBVIOUS
    <2>2. q = p
      BY <1>5, <2>1 DEF Idle, Begun
    <2>3. op' = [op EXCEPT ![t] = q]
      BY <2>1 DEF Change
    <2> QED
      BY <2>2, <2>3
  <1>7. p \in Operation /\ p.locked = Names(call, keys) /\ p.at = a /\ p.drop = keys
    <2>1. call \in Calls /\ a \in Places /\ Top \in Keys \cup {Top}
      BY <1>5 DEF Changing, Calls, Places, Dropping
    <2> QED
      BY <1>1, <2>1, BegunOK
  <1> HIDE DEF p
  <1>8. OperationOK(p)
    BY <1>1, <1>5, <1>7 DEF OperationOK, Looking, Listing_, Dropping
  <1>9. Types'
    <2>1. OpsOK' /\ Apart'
      BY <1>3, <1>6, <1>7, <1>8, OneGoesOn DEF Inv, Types
    <2>2. StoreOK' /\ (world \in Worlds)'
      BY <1>2, <1>3 DEF Inv, Types, StoreOK, Changed
    <2>3. HeadOK'
      BY <1>3 DEF Inv, Types, HeadOK, head
    <2>4. ListOK'
      BY <1>3 DEF Inv, Types, ListOK, list
    <2> QED
      BY <2>1, <2>2, <2>3, <2>4 DEF Types
  <1>10. op'[t] = p /\ \A u \in Threads : u # t => op'[u] = op[u]
    BY <1>6, Known
  <1>11. \A k : /\ ~Pending(k)' => ~Pending(k) /\ k \notin Range(keys)
                /\ Settled(k)' => Settled(k) /\ k \notin Range(keys)
    BY <1>4, <1>5, <1>7, <1>10 DEF Pending, Settled
  <1>12. HeadsRight'
    <2> SUFFICES ASSUME NEW f \in Files, ~Pending(f)', <<"head", f>> \notin doubt'
                 PROVE  HeadRight(f)'
      BY DEF HeadsRight
    <2>1. HeadRight(f) /\ store'[f] = store[f]
      BY <1>2, <1>3, <1>11 DEF Inv, HeadsRight, Changed, Keys
    <2> QED
      BY <2>1, <1>3, <1>5, <1>7, <1>10 DEF HeadRight, head
  <1>13. ListingsRight'
    <2> SUFFICES ASSUME NEW f \in Keys, Settled(f)', <<"list", Parent[f]>> \notin doubt'
                 PROVE  ListRight(Parent[f], f)'
      BY DEF ListingsRight
    <2>1. ListRight(Parent[f], f) /\ store'[f] = store[f]
      BY <1>2, <1>3, <1>11 DEF Inv, ListingsRight, Changed
    <2> QED
      BY <2>1, <1>3, <1>5, <1>7, <1>10 DEF ListRight, Shows, list
  <1> QED
    BY <1>9, <1>12, <1>13 DEF Inv

(* Nothing is invalidated, but what may be wrong now is in doubt.           *)
LEMMA FailedChangeInv ==
  ASSUME Inv, NEW t \in Threads, NEW call \in Changing, NEW keys \in Changes(call),
         FailedChange(t, call, keys)
  PROVE  Inv'
  <1>1. UNCHANGED <<head, list, world, op>>
    BY DEF FailedChange
  <1>2. Changed(store', keys)
    BY StoredOK, SparingOK DEF FailedChange, Inv, Types
  <1>3. PICK done : /\ done = {k \in Range(keys) : store'[k] # store[k]}
                    /\ doubt' = doubt \cup {x \in {"head"} \X done \cup {"list"} \X {Parent[k] : k \in done} :
                                              HasEntry(x[1], x[2])}
    BY DEF FailedChange
  <1>4. \A k \in done : /\ HasEntry("head", k) => <<"head", k>> \in doubt'
                        /\ HasEntry("list", Parent[k]) => <<"list", Parent[k]>> \in doubt'
    BY <1>3
  <1>5. \A k \in Keys \ done : store'[k] = store[k]
    BY <1>2, <1>3 DEF Changed
  <1>6. doubt \subseteq doubt'
    BY <1>3
  <1>7. Types'
    <2>1. StoreOK'
      BY <1>2 DEF Changed, StoreOK
    <2>2. OpsOK' /\ Apart' /\ HeadOK' /\ ListOK' /\ (world \in Worlds)'
      BY <1>1 DEF Inv, Types, OpsOK, Apart, HeadOK, ListOK, head, list
    <2> QED
      BY <2>1, <2>2 DEF Types
  <1>8. HeadsRight'
    <2> SUFFICES ASSUME NEW f \in Files, ~Pending(f)', <<"head", f>> \notin doubt'
                 PROVE  HeadRight(f)'
      BY DEF HeadsRight
    <2>1. CASE f \in done
      <3>1. ~HasEntry("head", f)
        BY <1>4, <2>1
      <3> QED
        BY <1>1, <3>1 DEF HasEntry, Filling, HeadRight, head
    <2>2. CASE f \notin done
      <3>1. HeadRight(f) /\ store'[f] = store[f]
        BY <1>1, <1>5, <1>6, <2>2 DEF Inv, HeadsRight, Pending, Keys
      <3> QED
        BY <1>1, <3>1 DEF HeadRight, head
    <2> QED
      BY <2>1, <2>2
  <1>9. ListingsRight'
    <2> SUFFICES ASSUME NEW f \in Keys, Settled(f)', <<"list", Parent[f]>> \notin doubt'
                 PROVE  ListRight(Parent[f], f)'
      BY DEF ListingsRight
    <2>1. CASE f \in done
      <3>1. ~HasEntry("list", Parent[f])
        BY <1>4, <2>1
      <3> QED
        BY <1>1, <3>1 DEF HasEntry, Filling, ListRight, list
    <2>2. CASE f \notin done
      <3>1. ListRight(Parent[f], f) /\ store'[f] = store[f]
        BY <1>1, <1>5, <1>6, <2>2 DEF Inv, ListingsRight, Settled
      <3> QED
        BY <1>1, <3>1 DEF ListRight, Shows, list
    <2> QED
      BY <2>1, <2>2
  <1> QED
    BY <1>7, <1>8, <1>9 DEF Inv

------------------------------------------------------------------------------
LEMMA FirstAndRest ==
  ASSUME NEW drop \in Seq(Keys), drop # <<>>
  PROVE  /\ Head(drop) \in Keys /\ Tail(drop) \in Seq(Keys)
         /\ Range(drop) = {Head(drop)} \cup Range(Tail(drop))
         /\ Tail(drop) = <<>> => Range(Tail(drop)) = {}
  <1>1. Len(drop) \in Nat /\ Len(drop) > 0 /\ DOMAIN drop = 1 .. Len(drop) /\ Head(drop) = drop[1]
    OBVIOUS
  <1>2. /\ Tail(drop) \in Seq(Keys) /\ Len(Tail(drop)) = Len(drop) - 1
        /\ \A i \in 1 .. Len(drop) - 1 : Tail(drop)[i] = drop[i + 1]
    BY <1>1
  <1>3. DOMAIN Tail(drop) = 1 .. Len(drop) - 1
    BY <1>2
  <1>4. Range(drop) \subseteq {Head(drop)} \cup Range(Tail(drop))
    <2> SUFFICES ASSUME NEW i \in 1 .. Len(drop), i # 1
                 PROVE  drop[i] \in Range(Tail(drop))
      BY <1>1 DEF Range
    <2>1. i - 1 \in 1 .. Len(drop) - 1 /\ Tail(drop)[i - 1] = drop[i]
      BY <1>1, <1>2
    <2> QED
      BY <1>3, <2>1 DEF Range
  <1>5. {Head(drop)} \cup Range(Tail(drop)) \subseteq Range(drop)
    <2>1. Head(drop) \in Range(drop)
      BY <1>1 DEF Range
    <2>2. Range(Tail(drop)) \subseteq Range(drop)
      <3> SUFFICES ASSUME NEW i \in 1 .. Len(drop) - 1
                   PROVE  Tail(drop)[i] \in Range(drop)
        BY <1>3 DEF Range
      <3>1. i + 1 \in 1 .. Len(drop)
        BY <1>1
      <3> QED
        BY <1>1, <1>2, <3>1 DEF Range
    <2> QED
      BY <2>1, <2>2
  <1>6. Tail(drop) = <<>> => Range(Tail(drop)) = {}
    BY DEF Range
  <1>7. Head(drop) \in Keys
    BY <1>1
  <1> QED
    BY <1>2, <1>4, <1>5, <1>6, <1>7

(* What is in doubt after an invalidation.                                  *)
LEMMA Doubtful ==
  ASSUME NEW cache, NEW xs, doubt' = DoubtAfter(cache, xs)
  PROVE  /\ \A x \in xs : Filling(cache, x) => <<cache, x>> \in doubt'
         /\ \A c, x : c # cache \/ x \notin xs => (<<c, x>> \in doubt => <<c, x>> \in doubt')
  BY DEF DoubtAfter

LEMMA DropHeadInv ==
  ASSUME Inv, NEW t \in Threads, DropHead(t)
  PROVE  Inv'
  <1> DEFINE k == Head(op[t].drop)
             xs == Dropped(k)
  <1>1. op[t] \in Operation /\ op[t].at = "drop head" /\ op[t].drop \in Seq(Keys) /\ op[t].drop # <<>>
    BY Known, Fields DEF DropHead, OperationOK, Dropping
  <1>2. k \in Keys /\ Range(op[t].drop) = {k} \cup Range(Tail(op[t].drop))
    BY <1>1, FirstAndRest
  <1>3. PICK a : a = "drop list"
    OBVIOUS
  <1> DEFINE p == With(op[t], a, op[t].look, op[t].got)
  <1>4. op' = [op EXCEPT ![t] = p]
    <2>1. op' = [op EXCEPT ![t].at = a]
      BY <1>3 DEF DropHead, Goto
    <2> QED
      BY <2>1, Known, GotoWith
  <1>5. p \in Operation /\ p.at = a /\ p.locked = op[t].locked /\ p.drop = op[t].drop
    <2> PICK o : o = op[t]
      OBVIOUS
    <2>1. op[t] \in Operation /\ a \in Places /\ op[t].look \in Keys \cup {Top} /\ op[t].got \in Versions
      BY <1>1, <1>3, Fields DEF Places, Dropping
    <2> QED
      BY <2>1, WithOK
  <1> HIDE DEF p
  <1>6. OperationOK(p)
    BY <1>1, <1>3, <1>5 DEF OperationOK, Looking, Listing_, Dropping
  <1>7. /\ UNCHANGED <<store, list, world>>
        /\ headPositive' = [x \in DOMAIN headPositive \ xs |-> headPositive[x]]
        /\ headNegative' = headNegative \ xs
        /\ doubt' = DoubtAfter("head", xs)
    BY DEF DropHead, Without, Restrict
  <1>8. Types'
    <2>1. OpsOK' /\ Apart'
      BY <1>4, <1>5, <1>6, OneGoesOn DEF Inv, Types
    <2>2. StoreOK' /\ (world \in Worlds)'
      BY <1>7 DEF Inv, Types, StoreOK
    <2>3. HeadOK'
      BY <1>7 DEF Inv, Types, HeadOK
    <2>4. ListOK'
      BY <1>7 DEF Inv, Types, ListOK, list
    <2> QED
      BY <2>1, <2>2, <2>3, <2>4 DEF Types
  <1>9. op'[t] = p /\ \A u \in Threads : u # t => op'[u] = op[u]
    BY <1>4, Known
  <1>10. \A x : /\ x # k /\ ~Pending(x)' => ~Pending(x)
                /\ Settled(x)' => Settled(x)
    BY <1>1, <1>2, <1>3, <1>5, <1>9 DEF Pending, Settled
  <1>11. HeadsRight'
    <2> SUFFICES ASSUME NEW f \in Files, ~Pending(f)', <<"head", f>> \notin doubt'
                 PROVE  HeadRight(f)'
      BY DEF HeadsRight
    <2>1. CASE f \in xs
      <3>1. ~Filling("head", f)
        BY <1>7, <2>1, Doubtful
      <3> QED
        BY <1>3, <1>5, <1>7, <1>9, <2>1, <3>1 DEF HeadRight, Filling
    <2>2. CASE f \notin xs
      <3>1. f # k
        BY <2>2 DEF Dropped
      <3>2. HeadRight(f)
        BY <1>7, <1>10, <2>2, <3>1, Doubtful DEF Inv, HeadsRight
      <3> QED
        BY <1>3, <1>5, <1>7, <1>9, <2>2, <3>2 DEF HeadRight
    <2> QED
      BY <2>1, <2>2
  <1>12. ListingsRight'
    <2> SUFFICES ASSUME NEW f \in Keys, Settled(f)', <<"list", Parent[f]>> \notin doubt'
                 PROVE  ListRight(Parent[f], f)'
      BY DEF ListingsRight
    <2>1. ListRight(Parent[f], f)
      BY <1>7, <1>10, Doubtful DEF Inv, ListingsRight
    <2> QED
      BY <2>1, <1>3, <1>5, <1>7, <1>9 DEF ListRight, Shows, list
  <1> QED
    BY <1>8, <1>11, <1>12 DEF Inv

LEMMA DropListInv ==
  ASSUME Inv, NEW t \in Threads, DropList(t)
  PROVE  Inv'
  <1> DEFINE k == Head(op[t].drop)
             rest == Tail(op[t].drop)
             xs == Dropped(k)
  <1>1. op[t] \in Operation /\ op[t].at = "drop list" /\ op[t].drop \in Seq(Keys) /\ op[t].drop # <<>>
    BY Known, Fields DEF DropList, OperationOK, Dropping
  <1>2. /\ k \in Keys /\ rest \in Seq(Keys) /\ Range(op[t].drop) = {k} \cup Range(rest)
        /\ rest = <<>> => Range(rest) = {}
    BY <1>1, FirstAndRest
  <1>3. PICK p : /\ op' = [op EXCEPT ![t] = p]
                 /\ OperationOK(p) /\ p.locked \subseteq op[t].locked
                 /\ \/ p.at = "idle" /\ Range(rest) = {}
                    \/ p.at = "drop head" /\ p.drop = rest
    <2> DEFINE p == [op[t] EXCEPT !.drop = rest, !.at = "drop head"]
    <2>1. op' = [op EXCEPT ![t] = IF rest = <<>> THEN Idle ELSE p]
      BY DEF DropList
    <2>2. CASE rest = <<>>
      <3>1. OperationOK(Idle) /\ Idle.at = "idle" /\ Idle.locked = {}
        BY IdleOK DEF Idle
      <3> QED
        BY <1>2, <2>1, <2>2, <3>1
    <2>3. CASE rest # <<>>
      <3>1. PICK o, r, q : o = op[t] /\ r = rest /\ q = [o EXCEPT !.drop = r, !.at = "drop head"]
        OBVIOUS
      <3>2. o \in Operation /\ q = p
        BY <1>1, <3>1
      <3>3. q = [call |-> o.call, locked |-> o.locked, at |-> "drop head", look |-> o.look, got |-> o.got,
                 listing |-> o.listing, todo |-> o.todo, drop |-> r]
        BY <3>1, <3>2 DEF Operation
      <3>4. q \in Operation
        BY <1>2, <3>1, <3>2, <3>3 DEF Operation, Places, Dropping
      <3>5. OperationOK(q) /\ q.locked = o.locked /\ q.at = "drop head" /\ q.drop = r
        BY <2>3, <3>1, <3>4, <3>3 DEF OperationOK, Looking, Listing_, Dropping
      <3> QED
        BY <2>1, <2>3, <3>1, <3>2, <3>5
    <2> QED
      BY <2>2, <2>3
  <1>4. /\ UNCHANGED <<store, head, world>>
        /\ listPositive' = [x \in DOMAIN listPositive \ xs |-> listPositive[x]]
        /\ listNegative' = listNegative \ xs
        /\ doubt' = DoubtAfter("list", xs)
    BY DEF DropList, Without, Restrict
  <1>5. Types'
    <2>1. OpsOK' /\ Apart'
      BY <1>3, OneGoesOn DEF Inv, Types
    <2>2. StoreOK' /\ (world \in Worlds)'
      BY <1>4 DEF Inv, Types, StoreOK
    <2>3. HeadOK'
      BY <1>4 DEF Inv, Types, HeadOK, head
    <2>4. ListOK'
      BY <1>4 DEF Inv, Types, ListOK
    <2> QED
      BY <2>1, <2>2, <2>3, <2>4 DEF Types
  <1>6. op'[t] = p /\ \A u \in Threads : u # t => op'[u] = op[u]
    BY <1>3, Known
  <1>7. \A x : /\ ~Pending(x)' => ~Pending(x)
               /\ x # k /\ Settled(x)' => Settled(x)
    BY <1>1, <1>2, <1>3, <1>6 DEF Pending, Settled
  <1>8. HeadsRight'
    <2> SUFFICES ASSUME NEW f \in Files, ~Pending(f)', <<"head", f>> \notin doubt'
                 PROVE  HeadRight(f)'
      BY DEF HeadsRight
    <2>1. HeadRight(f)
      BY <1>4, <1>7, Doubtful DEF Inv, HeadsRight
    <2> QED
      BY <2>1, <1>3, <1>4, <1>6 DEF HeadRight, head
  <1>9. ListingsRight'
    <2> SUFFICES ASSUME NEW f \in Keys, Settled(f)', <<"list", Parent[f]>> \notin doubt'
                 PROVE  ListRight(Parent[f], f)'
      BY DEF ListingsRight
    <2>1. CASE Parent[f] \in xs
      <3>1. ~Filling("list", Parent[f])
        BY <1>4, <2>1, Doubtful
      <3> QED
        BY <1>3, <1>4, <1>6, <2>1, <3>1 DEF ListRight, Filling
    <2>2. CASE Parent[f] \notin xs
      <3>1. f # k
        BY <2>2 DEF Dropped
      <3>2. ListRight(Parent[f], f)
        BY <1>4, <1>7, <2>2, <3>1, Doubtful DEF Inv, ListingsRight
      <3> QED
        BY <1>3, <1>4, <1>6, <2>2, <3>2 DEF ListRight, Shows
    <2> QED
      BY <2>1, <2>2
  <1> QED
    BY <1>5, <1>8, <1>9 DEF Inv

------------------------------------------------------------------------------
(* What the timer removes leaves what is cached and on its way as it was.   *)
LEMMA ExpireHeadInv ==
  ASSUME Inv, NEW x, ExpireHead(x)
  PROVE  Inv'
  <1>1. /\ UNCHANGED <<store, list, world, op>>
        /\ headPositive' = [y \in DOMAIN headPositive \ {x} |-> headPositive[y]]
        /\ headNegative' = headNegative \ {x}
        /\ doubt' = IF Filling("head", x) THEN doubt ELSE doubt \ {<<"head", x>>}
    BY DEF ExpireHead, Without, Restrict
  <1>2. Types'
    <2>1. StoreOK' /\ OpsOK' /\ Apart' /\ (world \in Worlds)'
      BY <1>1 DEF Inv, Types, StoreOK, OpsOK, Apart
    <2>2. HeadOK'
      BY <1>1 DEF Inv, Types, HeadOK
    <2>3. ListOK'
      BY <1>1 DEF Inv, Types, ListOK, list
    <2> QED
      BY <2>1, <2>2, <2>3 DEF Types
  <1>3. HeadsRight'
    <2> SUFFICES ASSUME NEW f \in Files, ~Pending(f)', <<"head", f>> \notin doubt'
                 PROVE  HeadRight(f)'
      BY DEF HeadsRight
    <2>1. CASE <<"head", f>> \notin doubt
      <3>1. HeadRight(f)
        BY <1>1, <2>1 DEF Inv, HeadsRight, Pending
      <3> QED
        BY <1>1, <3>1 DEF HeadRight
    <2>2. CASE <<"head", f>> \in doubt
      <3>1. f = x /\ ~Filling("head", f)
        BY <1>1, <2>2
      <3> QED
        BY <1>1, <3>1 DEF HeadRight, Filling
    <2> QED
      BY <2>1, <2>2
  <1>4. ListingsRight'
    <2> SUFFICES ASSUME NEW f \in Keys, Settled(f)', <<"list", Parent[f]>> \notin doubt'
                 PROVE  ListRight(Parent[f], f)'
      BY DEF ListingsRight
    <2>1. ListRight(Parent[f], f)
      BY <1>1 DEF Inv, ListingsRight, Settled
    <2> QED
      BY <1>1, <2>1 DEF ListRight, Shows, list
  <1> QED
    BY <1>2, <1>3, <1>4 DEF Inv

LEMMA ExpireListInv ==
  ASSUME Inv, NEW x, ExpireList(x)
  PROVE  Inv'
  <1>1. /\ UNCHANGED <<store, head, world, op>>
        /\ listPositive' = [y \in DOMAIN listPositive \ {x} |-> listPositive[y]]
        /\ listNegative' = listNegative \ {x}
        /\ doubt' = IF Filling("list", x) THEN doubt ELSE doubt \ {<<"list", x>>}
    BY DEF ExpireList, Without, Restrict
  <1>2. Types'
    <2>1. StoreOK' /\ OpsOK' /\ Apart' /\ (world \in Worlds)'
      BY <1>1 DEF Inv, Types, StoreOK, OpsOK, Apart
    <2>2. HeadOK'
      BY <1>1 DEF Inv, Types, HeadOK, head
    <2>3. ListOK'
      BY <1>1 DEF Inv, Types, ListOK
    <2> QED
      BY <2>1, <2>2, <2>3 DEF Types
  <1>3. HeadsRight'
    <2> SUFFICES ASSUME NEW f \in Files, ~Pending(f)', <<"head", f>> \notin doubt'
                 PROVE  HeadRight(f)'
      BY DEF HeadsRight
    <2>1. HeadRight(f)
      BY <1>1 DEF Inv, HeadsRight, Pending
    <2> QED
      BY <1>1, <2>1 DEF HeadRight, head
  <1>4. ListingsRight'
    <2> SUFFICES ASSUME NEW f \in Keys, Settled(f)', <<"list", Parent[f]>> \notin doubt'
                 PROVE  ListRight(Parent[f], f)'
      BY DEF ListingsRight
    <2>1. CASE <<"list", Parent[f]>> \notin doubt
      <3>1. ListRight(Parent[f], f)
        BY <1>1, <2>1 DEF Inv, ListingsRight, Settled
      <3> QED
        BY <1>1, <3>1 DEF ListRight, Shows
    <2>2. CASE <<"list", Parent[f]>> \in doubt
      <3>1. Parent[f] = x /\ ~Filling("list", Parent[f])
        BY <1>1, <2>2
      <3> QED
        BY <1>1, <3>1 DEF ListRight, Filling
    <2> QED
      BY <2>1, <2>2
  <1> QED
    BY <1>2, <1>3, <1>4 DEF Inv

LEMMA StutterInv ==
  ASSUME Inv, UNCHANGED vars
  PROVE  Inv'
  <1>1. UNCHANGED <<store, headPositive, headNegative, listPositive, listNegative, world, op, doubt>>
    BY DEF vars, head, list
  <1>2. Types'
    BY <1>1 DEF Inv, Types, StoreOK, HeadOK, ListOK, OpsOK, Apart
  <1>3. HeadsRight' /\ ListingsRight'
    BY <1>1 DEF Inv, HeadsRight, HeadRight, Pending, ListingsRight, ListRight, Shows, Settled
  <1> QED
    BY <1>2, <1>3 DEF Inv

LEMMA NextInv == Inv /\ [Next]_vars => Inv'
  <1> SUFFICES ASSUME Inv, [Next]_vars PROVE Inv'
    OBVIOUS
  <1>1. CASE \E t \in Threads, k \in Keys : IsNegative(t, k)
    BY <1>1, IsNegativeInv
  <1>2. CASE \E t \in Threads, d \in Lists, call \in {"listObjects", "listDisplayObjects"} :
               ListIsNegative(t, d, call)
    BY <1>2, ListIsNegativeInv
  <1>3. CASE \E t \in Threads, call \in Changing : \E keys \in Changes(call) :
               Change(t, call, keys) \/ FailedChange(t, call, keys)
    BY <1>3, ChangeInv, FailedChangeInv
  <1>4. CASE \E t \in Threads : Operate(t)
    BY <1>4, IsPositiveInv, AskHeadInv, AskParentCacheInv, AskParentInv, FillHeadInv,
       ListIsPositiveInv, AskListInv, FillListInv, DropHeadInv, DropListInv
       DEF Operate, Lookup, ListUp, Invalidate
  <1>5. CASE (\E k \in Keys : ExpireHead(k)) \/ \E d \in Lists : ExpireList(d)
    BY <1>5, ExpireHeadInv, ExpireListInv
  <1>6. CASE UNCHANGED vars
    BY <1>6, StutterInv
  <1> QED
    BY <1>1, <1>2, <1>3, <1>4, <1>5, <1>6 DEF Next, Changing

(* The types, and what is cached and on its way, are right in each state of *)
(* the caches' operations.                                                  *)
THEOREM CachesRight == Spec => []Inv
  BY InitInv, NextInv, PTL DEF Spec

LEMMA InvImplies == Inv => TypeOK /\ FilesRight /\ ListsRight
  <1> SUFFICES ASSUME Inv PROVE TypeOK /\ FilesRight /\ ListsRight
    OBVIOUS
  <1>1. TypeOK
    <2>1. \A t \in Threads :
            /\ op[t].locked \subseteq Keys \cup {Top}
            /\ op[t].todo \subseteq Keys
            /\ op[t].drop \in Seq(Keys)
            /\ op[t].look \in (IF op[t].at \in {"list positive", "list ask",
                                                "list fill", "list failed"} THEN Lists ELSE Keys \cup {Top})
            /\ op[t].at = "idle" <=> op[t] = Idle
      <3> SUFFICES ASSUME NEW t \in Threads
                   PROVE  /\ op[t].locked \subseteq Keys \cup {Top}
                          /\ op[t].todo \subseteq Keys
                          /\ op[t].drop \in Seq(Keys)
                          /\ op[t].look \in (IF op[t].at \in {"list positive", "list ask",
                                                "list fill", "list failed"} THEN Lists ELSE Keys \cup {Top})
                          /\ op[t].at = "idle" <=> op[t] = Idle
        OBVIOUS
      <3>1. OperationOK(op[t]) /\ op[t] \in Operation
        BY Known
      <3>2. op[t].at = "idle" <=> op[t] = Idle
        <4>1. op[t].at = "idle" => op[t] = Idle
          BY <3>1 DEF OperationOK
        <4>2. Idle.at = "idle"
          BY DEF Idle
        <4> QED
          BY <4>1, <4>2
      <3> QED
        BY <3>1, <3>2, Fields DEF OperationOK, Listing_
    <2>2. \A t \in Threads : \A u \in Threads \ {t} : op[t].locked \cap op[u].locked = {}
      BY DEF Inv, Types, Apart
    <2> QED
      BY <2>1, <2>2 DEF Inv, Types, StoreOK, HeadOK, ListOK, TypeOK
  <1>2. FilesRight
    <2> SUFFICES ASSUME NEW k \in Files, Settled(k), ~Doubted("head", k)
                 PROVE  HeadRight(k)
      BY DEF FilesRight, HeadRight
    <2>1. ~Pending(k)
      <3> SUFFICES ASSUME NEW t \in Threads, op[t].at = "drop list", k \in Range(Tail(op[t].drop))
                   PROVE  FALSE
        BY DEF Pending, Settled
      <3>1. op[t].drop \in Seq(Keys) /\ op[t].drop # <<>>
        BY Known, Fields DEF OperationOK, Dropping
      <3> QED
        BY <3>1, FirstAndRest DEF Settled
    <2> QED
      BY <2>1 DEF Inv, HeadsRight, Doubted
  <1>3. ListsRight
    BY DEF Inv, ListingsRight, ListRight, Shows, ListsRight, Doubted
  <1> QED
    BY <1>1, <1>2, <1>3

(* Entries, listings and threads are of their types, and no two threads are *)
(* in callbacks that lock one name.                                         *)
THEOREM TypesHold == Spec => []TypeOK
  BY CachesRight, InvImplies, PTL

(* What is cached of a file is what the bucket has, but for what is in      *)
(* doubt (FilesRight), for any number of threads, files and directories.    *)
THEOREM FilesStayRight == Spec => []FilesRight
  BY CachesRight, InvImplies, PTL

(* A cached listing shows what is there and no file that is not, but for    *)
(* what is in doubt (ListsRight).                                           *)
THEOREM ListsStayRight == Spec => []ListsRight
  BY CachesRight, InvImplies, PTL

------------------------------------------------------------------------------
(* From here on with the callbacks.                                        *)
(* the steps of the callbacks on the caches, by the lemmas they need        *)
LEMMA OpenCallsInv ==
  ASSUME Inv, NEW t \in Threads, NEW f \in Files,
         DeleteFile(t, f) \/ CloseUpload(t, f) \/ CloseFails(t, f)
  PROVE  Inv'
  <1>1. <<f>> \in Changes("deleteObject") /\ <<f>> \in Changes("putObject")
    BY DEF Changes, Keys
  <1>2. "deleteObject" \in Changing /\ "putObject" \in Changing
    BY DEF Changing
  <1>3. CASE DeleteFile(t, f)
    BY <1>1, <1>2, <1>3, ChangeInv, FailedChangeInv DEF DeleteFile
  <1>4. CASE CloseUpload(t, f)
    BY <1>1, <1>2, <1>4, ChangeInv DEF CloseUpload
  <1>5. CASE CloseFails(t, f)
    BY <1>1, <1>2, <1>5, FailedChangeInv DEF CloseFails
  <1> QED
    BY <1>3, <1>4, <1>5

LEMMA DirDeletedInv ==
  ASSUME Inv, NEW t \in Threads, DeleteFiles(t) \/ DeleteDir(t) \/ GiveUp(t)
  PROVE  Inv'
  <1>1. <<Dir>> \in Changes("deleteObject")
    BY DirKnown DEF Changes, Keys
  <1>2. "deleteObject" \in Changing /\ "deleteObjects" \in Changing
    BY DEF Changing
  <1>3. Removed(t) \subseteq Changes("deleteObjects")
    BY DEF Removed
  <1>4. CASE DeleteFiles(t)
    BY <1>2, <1>3, <1>4, ChangeInv DEF DeleteFiles
  <1>5. CASE DeleteDir(t)
    BY <1>1, <1>2, <1>5, ChangeInv DEF DeleteDir
  <1>6. CASE GiveUp(t)
    BY <1>1, <1>2, <1>3, <1>6, FailedChangeInv, StutterInv DEF GiveUp
  <1> QED
    BY <1>4, <1>5, <1>6

LEMMA ListingInv ==
  ASSUME Inv, NEW t \in Threads, List(t) \/ ListStep(t)
  PROVE  Inv'
  <1>1. CASE List(t)
    <2>1. Dir \in Lists
      BY DirKnown DEF Lists
    <2>2. UNCHANGED vars \/ \E call \in {"listObjects", "listDisplayObjects"} : ListIsNegative(t, Dir, call)
      BY <1>1 DEF List
    <2> QED
      BY <2>1, <2>2, ListIsNegativeInv, StutterInv
  <1>2. CASE ListStep(t)
    BY <1>2, ListIsPositiveInv, AskListInv, FillListInv DEF ListStep, ListUp
  <1> QED
    BY <1>1, <1>2

LEMMA CallbacksInv ==
  ASSUME Inv, Callbacks
  PROVE  Inv'
  <1>1. CASE \E f \in Files : OpenOrCreate(f) \/ CloseOnly(f)
    BY <1>1, StutterInv DEF OpenOrCreate, CloseOnly
  <1>2. CASE \E t \in Threads : \E f \in Files : DeleteFile(t, f) \/ CloseUpload(t, f) \/ CloseFails(t, f)
    BY <1>2, OpenCallsInv
  <1>3. CASE \E t \in Threads : ReleaseFile(t) \/ ReadDirectory(t) \/ SetDelete(t) \/ Show(t) \/ Return(t)
    BY <1>3, StutterInv DEF ReleaseFile, ReadDirectory, SetDelete, Show, Return
  <1>4. CASE \E t \in Threads : List(t) \/ ListStep(t) \/ DeleteFiles(t) \/ DeleteDir(t) \/ GiveUp(t)
    BY <1>4, ListingInv, DirDeletedInv
  <1>5. CASE (\E t \in Threads : Invalidate(t)) \/ ExpireList(Dir)
    BY <1>5, DropHeadInv, DropListInv, ExpireListInv DEF Invalidate
  <1> QED
    BY <1>1, <1>2, <1>3, <1>4, <1>5 DEF Callbacks

LEMMA DirNextInv == Inv /\ [DirNext]_dirVars => Inv'
  <1>1. ASSUME Inv, Callbacks PROVE Inv'
    BY <1>1, CallbacksInv
  <1>2. ASSUME Inv, Next PROVE Inv'
    BY <1>2, NextInv
  <1>3. ASSUME Inv, UNCHANGED dirVars PROVE Inv'
    BY <1>3, StutterInv DEF dirVars
  <1> QED
    BY <1>1, <1>2, <1>3 DEF DirNext

LEMMA DirInitInv == DirInit => Inv
  BY InitInv DEF DirInit

(* Under the callbacks of a directory and its files, too, what is cached of *)
(* a file is what the bucket has, but for what is in doubt (FilesRight).    *)
THEOREM FilesRightInCallbacks == DirSpec => []FilesRight
  BY DirInitInv, DirNextInv, InvImplies, PTL DEF DirSpec

(* ... and a cached listing shows what is there, and no file that is not,   *)
(* but for what is in doubt (ListsRight).                                   *)
THEOREM ListsRightInCallbacks == DirSpec => []ListsRight
  BY DirInitInv, DirNextInv, InvImplies, PTL DEF DirSpec

------------------------------------------------------------------------------
(* What a callback needs of the cached listing, and of those on their way   *)

Covered(f) ==
  <<"list", Dir>> \notin doubt =>
    /\ Dir \in DOMAIN listPositive => f \in listPositive[Dir]
    /\ \A u \in Threads : op[u].at = "list fill" /\ op[u].look = Dir => f \in op[u].listing

(* A step of an operation, of no thread or of one: a file that is stored    *)
(* stays covered.                                                           *)
Onward(T) ==
  /\ \A u \in Threads \ T : op'[u] = op[u]
  /\ \A f \in Files : store[f] # 0 /\ Covered(f) => Covered(f)'
  /\ world' = world

LEMMA OnwardWith ==
  ASSUME Inv, NEW t \in Threads, NEW o, op' = [op EXCEPT ![t] = o],
         UNCHANGED <<list, world>>, <<"list", Dir>> \in doubt => <<"list", Dir>> \in doubt',
         o.at = "list fill" => \A f \in Files : store[f] # 0 /\ Parent[f] = o.look => f \in o.listing
  PROVE  Onward({t})
  <1>1. op'[t] = o /\ \A u \in Threads \ {t} : op'[u] = op[u]
    BY Known
  <1>2. ASSUME NEW f \in Files, store[f] # 0, Covered(f)
        PROVE  Covered(f)'
    <2>1. o.at = "list fill" /\ o.look = Dir => f \in o.listing
      BY <1>2, DirKnown
    <2> QED
      BY <1>1, <1>2, <2>1 DEF Covered, list
  <1> QED
    BY <1>1, <1>2 DEF Onward

(* A listing is asked for, goes on, or is filled in.                        *)
LEMMA ListBegins ==
  ASSUME Inv, NEW t \in Threads, NEW call, ListIsNegative(t, Dir, call)
  PROVE  /\ Onward({t}) /\ store' = store
         /\ op'[t].at = "list positive" /\ op'[t].look = Dir
  <1>1. PICK o : o = [Idle EXCEPT !.call = call, !.locked = {Dir}, !.look = Dir, !.at = "list positive"]
    OBVIOUS
  <1>2. op' = [op EXCEPT ![t] = o] /\ UNCHANGED <<store, list, world, doubt>>
    BY <1>1 DEF ListIsNegative
  <1>3. o.at = "list positive" /\ o.look = Dir
    BY <1>1 DEF Idle
  <1>4. Onward({t})
    BY <1>2, <1>3, OnwardWith
  <1> QED
    BY <1>2, <1>3, <1>4, Known

LEMMA ListedGoes ==
  ASSUME Inv, NEW t \in Threads, NEW shows, Listed(t, shows), op[t].at \in Listing_
  PROVE  \E o : op' = [op EXCEPT ![t] = o] /\ o.at \in {"idle", "next"}
  <1>1. op[t] \in Operation
    BY Known
  <1>2. PICK todo : todo = shows \cup ({op[t].look} \ {Top})
    OBVIOUS
  <1>3. \/ op' = [op EXCEPT ![t] = Idle]
        \/ op' = [op EXCEPT ![t] = [@ EXCEPT !.at = "next", !.look = Top, !.listing = Idle.listing, !.todo = todo]]
    BY <1>2 DEF Listed
  <1>4. CASE op' = [op EXCEPT ![t] = Idle]
    <2>1. PICK o : o = Idle
      OBVIOUS
    <2>2. op' = [op EXCEPT ![t] = o] /\ o.at = "idle"
      BY <1>4, <2>1 DEF Idle
    <2> QED
      BY <2>2
  <1>5. CASE op' = [op EXCEPT ![t] = [@ EXCEPT !.at = "next", !.look = Top, !.listing = Idle.listing, !.todo = todo]]
    <2>1. PICK p : p = [op[t] EXCEPT !.at = "next", !.look = Top, !.listing = Idle.listing, !.todo = todo]
      OBVIOUS
    <2>2. op' = [op EXCEPT ![t] = p] /\ p.at = "next"
      BY <1>1, <1>5, <2>1 DEF Operation
    <2> QED
      BY <2>2
  <1> QED
    BY <1>3, <1>4, <1>5

(* what is known of t's operation after a step of its listing               *)
GoesOnListing(t) ==
  /\ op'[t].at \in {"idle", "next", "list ask", "list fill", "list failed"}
  /\ op'[t].at \in Listing_ => op'[t].look = op[t].look
  /\ op'[t].at = "list fill" => \A f \in Files : store[f] # 0 /\ Parent[f] = op[t].look => f \in op'[t].listing

LEMMA ListGoes ==
  ASSUME Inv, NEW t \in Threads, ListUp(t), op[t].look = Dir
  PROVE  Onward({t}) /\ store' = store /\ GoesOnListing(t)
  <1>1. op[t] \in Operation
    BY Known
  <1>2. CASE ListIsPositive(t)
    <2>1. op[t].at \in Listing_ /\ UNCHANGED <<store, list, world, doubt>>
      BY <1>2 DEF ListIsPositive, Listing_
    <2>2. CASE Goto(t, "list ask")
      <3>1. PICK a : a = "list ask"
        OBVIOUS
      <3> DEFINE o == With(op[t], a, op[t].look, op[t].got)
      <3>2. op' = [op EXCEPT ![t] = o]
        BY <2>2, <3>1, Known, GotoWith DEF Goto
      <3>3. o.at = "list ask" /\ o.look = op[t].look
        BY <3>1 DEF With
      <3> HIDE DEF o
      <3>4. Onward({t})
        BY <2>1, <3>2, <3>3, OnwardWith
      <3> QED
        BY <2>1, <3>2, <3>3, <3>4, Known DEF GoesOnListing
    <2>3. CASE Listed(t, listPositive[op[t].look])
      <3>1. PICK o : op' = [op EXCEPT ![t] = o] /\ o.at \in {"idle", "next"}
        BY <2>1, <2>3, ListedGoes
      <3>2. Onward({t})
        BY <2>1, <3>1, OnwardWith
      <3> QED
        BY <2>1, <3>1, <3>2, Known DEF GoesOnListing, Listing_
    <2> QED
      BY <1>2, <2>2, <2>3 DEF ListIsPositive
  <1>3. CASE AskList(t)
    <2>1. UNCHANGED <<store, list, world, doubt>>
      BY <1>3 DEF AskList
    <2>2. CASE Goto(t, "list failed")
      <3>1. PICK a : a = "list failed"
        OBVIOUS
      <3> DEFINE o == With(op[t], a, op[t].look, op[t].got)
      <3>2. op' = [op EXCEPT ![t] = o]
        BY <2>2, <3>1, Known, GotoWith DEF Goto
      <3>3. o.at = "list failed" /\ o.look = op[t].look
        BY <3>1 DEF With
      <3> HIDE DEF o
      <3>4. Onward({t})
        BY <2>1, <3>2, <3>3, OnwardWith
      <3> QED
        BY <2>1, <3>2, <3>3, <3>4, Known DEF GoesOnListing
    <2>3. CASE op' = [op EXCEPT ![t] = [@ EXCEPT !.at = "list fill", !.listing = Listing(op[t].look)]]
      <3>1. PICK o : o = [op[t] EXCEPT !.at = "list fill", !.listing = Listing(op[t].look)]
        OBVIOUS
      <3>2. op' = [op EXCEPT ![t] = o]
        BY <2>3, <3>1
      <3>3. o.at = "list fill" /\ o.look = op[t].look /\ o.listing = Listing(op[t].look)
        BY <1>1, <3>1 DEF Operation
      <3>4. \A f \in Files : store[f] # 0 /\ Parent[f] = op[t].look => f \in o.listing
        BY <3>3 DEF Listing, Shown, Keys
      <3>5. Onward({t})
        BY <2>1, <3>2, <3>3, <3>4, OnwardWith
      <3> QED
        BY <2>1, <3>2, <3>3, <3>4, <3>5, Known DEF GoesOnListing
    <2> QED
      BY <1>3, <2>2, <2>3 DEF AskList
  <1>4. CASE FillList(t)
    <2>1. op[t].at \in Listing_ /\ UNCHANGED <<store, world, doubt>>
      BY <1>4 DEF FillList, Listing_
    <2>2. PICK o : op' = [op EXCEPT ![t] = o] /\ o.at \in {"idle", "next"}
      <3>1. CASE Listed(t, op[t].listing)
        BY <2>1, <3>1, ListedGoes
      <3>2. CASE op' = [op EXCEPT ![t] = Idle]
        <4>1. PICK o : o = Idle
          OBVIOUS
        <4>2. op' = [op EXCEPT ![t] = o] /\ o.at = "idle"
          BY <3>2, <4>1 DEF Idle
        <4> QED
          BY <4>2
      <3> QED
        BY <1>4, <3>1, <3>2 DEF FillList
    <2>3. op'[t] = o /\ \A u \in Threads \ {t} : op'[u] = op[u]
      BY <2>2, Known
    <2>4. ASSUME NEW f \in Files, Covered(f)
          PROVE  Covered(f)'
      <3>1. CASE op[t].at = "list fill"
        <4>1. listPositive' = [x \in DOMAIN listPositive \cup {Dir} |->
                                 IF x \in DOMAIN listPositive THEN listPositive[x] ELSE op[t].listing]
          BY <1>4, <3>1 DEF FillList, Emplaced
        <4> QED
          BY <2>1, <2>2, <2>3, <2>4, <3>1, <4>1 DEF Covered
      <3>2. CASE op[t].at # "list fill"
        <4>1. listPositive' = listPositive
          BY <1>4, <3>2 DEF FillList
        <4> QED
          BY <2>1, <2>2, <2>3, <2>4, <4>1 DEF Covered
      <3> QED
        BY <3>1, <3>2
    <2> QED
      BY <2>1, <2>2, <2>3, <2>4 DEF Onward, GoesOnListing, Listing_
  <1> QED
    BY <1>2, <1>3, <1>4 DEF ListUp

(* An object is changed, or a call that fails may have changed it.          *)
LEMMA ChangeGoes ==
  ASSUME Inv, NEW t \in Threads, NEW call \in Changing, NEW keys \in Changes(call), Change(t, call, keys)
  PROVE  /\ Onward({t})
         /\ op'[t].at = "drop head" /\ op'[t].drop = keys /\ op'[t].locked = Names(call, keys)
         /\ \A k \in Keys \ Range(keys) : store'[k] = store[k]
  <1>1. PICK o : o = [Idle EXCEPT !.call = call, !.locked = Names(call, keys), !.at = "drop head", !.drop = keys]
    OBVIOUS
  <1>2. op' = [op EXCEPT ![t] = o] /\ UNCHANGED <<list, world, doubt>>
    BY <1>1 DEF Change
  <1>3. o.at = "drop head" /\ o.drop = keys /\ o.locked = Names(call, keys)
    BY <1>1 DEF Idle
  <1>4. Onward({t})
    BY <1>2, <1>3, OnwardWith
  <1>5. Changed(store', keys)
    BY StoredOK, SparingOK DEF Change, Inv, Types
  <1> QED
    BY <1>2, <1>3, <1>4, <1>5, Known DEF Changed

LEMMA FailedChangeGoes ==
  ASSUME Inv, NEW t \in Threads, NEW call \in Changing, NEW keys \in Changes(call),
         FailedChange(t, call, keys)
  PROVE  /\ Onward({t}) /\ op' = op
         /\ \A k \in Keys \ Range(keys) : store'[k] = store[k]
         /\ \A f \in Files : store'[f] # store[f] => Covered(f)'
  <1>1. UNCHANGED <<head, list, world, op>>
    BY DEF FailedChange
  <1>2. Changed(store', keys)
    BY StoredOK, SparingOK DEF FailedChange, Inv, Types
  <1>3. PICK done : /\ done = {k \in Range(keys) : store'[k] # store[k]}
                    /\ doubt' = doubt \cup {x \in {"head"} \X done \cup {"list"} \X {Parent[k] : k \in done} :
                                              HasEntry(x[1], x[2])}
    BY DEF FailedChange
  <1>4. doubt \subseteq doubt' /\ \A k \in done : HasEntry("list", Parent[k]) => <<"list", Parent[k]>> \in doubt'
    BY <1>3
  <1>5. ASSUME NEW f \in Files, Covered(f) PROVE Covered(f)'
    BY <1>1, <1>4, <1>5 DEF Covered, list
  <1>6. ASSUME NEW f \in Files, store'[f] # store[f] PROVE Covered(f)'
    <2>1. f \in done /\ Parent[f] = Dir
      BY <1>2, <1>3, <1>6, DirKnown DEF Changed, Keys
    <2>2. CASE HasEntry("list", Dir)
      BY <1>4, <2>1, <2>2 DEF Covered
    <2>3. CASE ~HasEntry("list", Dir)
      BY <1>1, <2>3 DEF HasEntry, Filling, Covered, list
    <2> QED
      BY <2>2, <2>3
  <1> QED
    BY <1>1, <1>2, <1>5, <1>6 DEF Onward, Changed

(* An invalidation goes on: at its end no listing is left that lacks a file *)
LEMMA InvalidateGoes ==
  ASSUME Inv, NEW t \in Threads, Invalidate(t)
  PROVE  /\ Onward({t}) /\ store' = store
         /\ op[t].at \in Dropping /\ op'[t].at \in Dropping \cup {"idle"}
         /\ \A f \in Files : op[t].drop = <<f>> =>
              \/ op'[t].at \in Dropping /\ op'[t].drop = <<f>>
              \/ \A g \in Files : Covered(g)'
  <1> DEFINE k == Head(op[t].drop)
             xs == Dropped(k)
  <1>1. op[t] \in Operation /\ op[t].drop \in Seq(Keys)
    BY Known, Fields
  <1>2. CASE DropHead(t)
    <2>1. PICK a : a = "drop list"
      OBVIOUS
    <2> DEFINE o == With(op[t], a, op[t].look, op[t].got)
    <2>2. op' = [op EXCEPT ![t] = o]
      <3>1. op' = [op EXCEPT ![t].at = a]
        BY <1>2, <2>1 DEF DropHead, Goto
      <3> QED
        BY <3>1, Known, GotoWith
    <2>3. o.at = "drop list" /\ o.drop = op[t].drop
      BY <2>1 DEF With
    <2> HIDE DEF o
    <2>4. UNCHANGED <<store, list, world>> /\ doubt' = DoubtAfter("head", xs) /\ op[t].at = "drop head"
      BY <1>2 DEF DropHead
    <2>5. <<"list", Dir>> \in doubt => <<"list", Dir>> \in doubt'
      BY <2>4 DEF DoubtAfter
    <2>6. Onward({t})
      BY <2>2, <2>3, <2>4, <2>5, OnwardWith
    <2> QED
      BY <2>2, <2>3, <2>4, <2>6, Known DEF Dropping
  <1>3. CASE DropList(t)
    <2>1. /\ UNCHANGED <<store, head, world>> /\ op[t].at = "drop list"
          /\ listPositive' = [x \in DOMAIN listPositive \ xs |-> listPositive[x]]
          /\ doubt' = DoubtAfter("list", xs)
      BY <1>3 DEF DropList, Without, Restrict
    <2>2. PICK o : op' = [op EXCEPT ![t] = o] /\ o.at \in {"idle", "drop head"}
      <3>1. PICK p, q : p = [op[t] EXCEPT !.drop = Tail(op[t].drop), !.at = "drop head"] /\ q = Idle
        OBVIOUS
      <3>2. p.at = "drop head" /\ q.at = "idle"
        BY <1>1, <3>1 DEF Operation, Idle
      <3>3. op' = [op EXCEPT ![t] = p] \/ op' = [op EXCEPT ![t] = q]
        BY <1>3, <3>1 DEF DropList
      <3> QED
        BY <3>2, <3>3
    <2>3. op'[t] = o /\ \A u \in Threads \ {t} : op'[u] = op[u]
      BY <2>2, Known
    <2>4. ASSUME NEW f \in Files, Dir \in xs PROVE Covered(f)'
      <3>1. Filling("list", Dir) => <<"list", Dir>> \in doubt'
        BY <2>1, <2>4, Doubtful
      <3>2. Dir \notin DOMAIN listPositive'
        BY <2>1, <2>4
      <3> QED
        BY <2>2, <2>3, <3>1, <3>2 DEF Covered, Filling
    <2>5. ASSUME NEW f \in Files, Dir \notin xs, Covered(f) PROVE Covered(f)'
      <3>1. <<"list", Dir>> \in doubt => <<"list", Dir>> \in doubt'
        BY <2>1, <2>5, Doubtful
      <3> QED
        BY <2>1, <2>2, <2>3, <2>5, <3>1 DEF Covered
    <2>6. Onward({t})
      BY <2>1, <2>3, <2>4, <2>5 DEF Onward
    <2>7. ASSUME NEW f \in Files, op[t].drop = <<f>> PROVE Dir \in xs
      BY <2>7, DirKnown DEF Dropped
    <2> QED
      BY <2>1, <2>2, <2>3, <2>4, <2>6, <2>7 DEF Dropping
  <1> QED
    BY <1>2, <1>3 DEF Invalidate

(* the timer drops the listing                                              *)
LEMMA ExpireGoes ==
  ASSUME Inv, ExpireList(Dir)
  PROVE  Onward({}) /\ UNCHANGED <<store, op>>
  <1>1. /\ UNCHANGED <<store, head, world, op>>
        /\ listPositive' = [y \in DOMAIN listPositive \ {Dir} |-> listPositive[y]]
        /\ doubt' = IF Filling("list", Dir) THEN doubt ELSE doubt \ {<<"list", Dir>>}
    BY DEF ExpireList, Without, Restrict
  <1>2. ASSUME NEW f \in Files, Covered(f) PROVE Covered(f)'
    <2>1. CASE <<"list", Dir>> \notin doubt
      BY <1>1, <1>2, <2>1 DEF Covered
    <2>2. CASE <<"list", Dir>> \in doubt
      BY <1>1, <2>2 DEF Covered, Filling
    <2> QED
      BY <2>1, <2>2
  <1> QED
    BY <1>1, <1>2 DEF Onward

LEMMA StutterGoes ==
  ASSUME UNCHANGED vars
  PROVE  Onward({}) /\ UNCHANGED <<store, op>>
  BY DEF vars, list, Onward, Covered

------------------------------------------------------------------------------
(* The invariant of the callbacks.  A directory's callback wants what has   *)
(* been stored all the time and is not shown yet (Unseen); each cached      *)
(* listing, and each on its way, has it, unless there is doubt; and the     *)
(* listing a callback has asked for itself has it even then.                *)
Stages == {"", "list", "list again", "first", "next", "deleted"}

Job == [call : {"none", "Close", "ReadDirectory", "SetDelete"}, locked : SUBSET (Files \cup {Dir}),
        at : Stages, shown : SUBSET Files, unsure : BOOLEAN]

JobsOK == job \in [Threads -> Job] /\ stays \in [Threads -> SUBSET Files]

OpenOK == doomed \subseteq mOpen /\ mOpen \subseteq world.keys \cap Files

NoneTwice == \A t, u \in Threads : t # u => job[t].locked \cap job[u].locked = {}

(* Close keeps its file open until the caches are invalidated               *)
ClosesOne(t) ==
  \E f \in mOpen : /\ job[t].locked = {f}
                   /\ op[t] = Idle \/ (op[t].at \in Dropping /\ op[t].drop = <<f>>)

StageOK(t) ==
  /\ job[t].call = "none" => job[t] = NoJob
  /\ job[t].call = "Close" => job[t].at = "list" /\ ClosesOne(t)
  /\ job[t].call = "ReadDirectory" => job[t].at \in {"list", "first"} /\ job[t].locked = {}
  /\ job[t].call = "SetDelete" => job[t].at \in Stages \ {""} /\ job[t].locked = {Dir}
  /\ job[t].at \in {"first", "next"} => op[t] = Idle

Reading(t) == job[t].call \in {"ReadDirectory", "SetDelete"}

Unseen(t) == IF job[t].call = "ReadDirectory" THEN stays[t] \ job[t].shown ELSE stays[t]

StaysRight(t) ==
  /\ ~Reading(t) => stays[t] = {}
  /\ \A f \in Unseen(t) : store[f] # 0 /\ Covered(f) /\ (op[t].at = "list fill" => f \in op[t].listing)
  /\ ~job[t].unsure =>
       /\ job[t].at \in {"first", "next"} => stays[t] \subseteq job[t].shown
       /\ job[t].at = "deleted" => stays[t] = {}

Closing(f) == \E u \in Threads : job[u].call = "Close" /\ job[u].locked = {f} /\ op[u] # Idle

(* what is stored is listed, but for a file whose Close has just stored it  *)
Listable == \A f \in Files : store[f] # 0 /\ ~Closing(f) => Covered(f)

LooksAtDir == \A u \in Threads : op[u].at \in Listing_ => op[u].look = Dir

DirInv ==
  /\ Inv /\ JobsOK /\ OpenOK /\ NoneTwice
  /\ \A t \in Threads : StageOK(t) /\ StaysRight(t)
  /\ world.callbacks => Listable /\ LooksAtDir
  /\ ~world.callbacks => \A t \in Threads : job[t] = NoJob

LEMMA NoJobOK ==
  NoJob \in Job /\ NoJob.call = "none" /\ NoJob.at = "" /\ NoJob.locked = {} /\ NoJob.shown = {}
  BY DEF NoJob, Job, Stages

LEMMA BeginOK ==
  ASSUME JobsOK, NEW t \in Threads, NEW call \in {"Close", "ReadDirectory", "SetDelete"},
         NEW names \in SUBSET (Files \cup {Dir}), NEW shown \in SUBSET Files, NEW there \in SUBSET Files,
         Begin(t, call, names, shown, there)
  PROVE  /\ JobsOK' /\ job[t] = NoJob /\ op[t] = Idle
         /\ job'[t].call = call /\ job'[t].locked = names /\ job'[t].at = "list" /\ job'[t].shown = shown
         /\ stays'[t] = there
         /\ \A u \in Threads \ {t} : job'[u] = job[u] /\ stays'[u] = stays[u]
  <1>1. PICK j : j = [NoJob EXCEPT !.call = call, !.locked = names, !.at = "list", !.shown = shown]
    OBVIOUS
  <1>2. job' = [job EXCEPT ![t] = j] /\ stays' = [stays EXCEPT ![t] = there]
    BY <1>1 DEF Begin
  <1>3. j = [call |-> call, locked |-> names, at |-> "list", shown |-> shown, unsure |-> FALSE]
    BY <1>1 DEF NoJob
  <1>4. j \in Job
    BY <1>3 DEF Job, Stages
  <1>5. job'[t] = j /\ stays'[t] = there /\ \A u \in Threads \ {t} : job'[u] = job[u] /\ stays'[u] = stays[u]
    BY <1>2 DEF JobsOK
  <1>6. JobsOK'
    BY <1>2, <1>4 DEF JobsOK
  <1>7. job[t] = NoJob /\ op[t] = Idle
    BY DEF Begin
  <1> QED
    BY <1>3, <1>5, <1>6, <1>7

LEMMA FinishOK ==
  ASSUME JobsOK, NEW t \in Threads, Finish(t)
  PROVE  /\ JobsOK' /\ job'[t] = NoJob /\ stays'[t] = {}
         /\ \A u \in Threads \ {t} : job'[u] = job[u] /\ stays'[u] = stays[u]
  BY NoJobOK DEF Finish, JobsOK

LEMMA LostOK ==
  ASSUME JobsOK, NEW fs, Lost(fs)
  PROVE  stays' \in [Threads -> SUBSET Files] /\ \A u \in Threads : stays'[u] = stays[u] \ fs
  BY DEF Lost, JobsOK

(* a callback goes on elsewhere                                             *)
LEMMA StageSet ==
  ASSUME JobsOK, NEW t \in Threads, NEW a \in Stages, job' = [job EXCEPT ![t].at = a]
  PROVE  /\ job' \in [Threads -> Job]
         /\ job'[t].call = job[t].call /\ job'[t].locked = job[t].locked /\ job'[t].at = a
         /\ job'[t].shown = job[t].shown /\ job'[t].unsure = job[t].unsure
         /\ \A u \in Threads \ {t} : job'[u] = job[u]
  <1>1. PICK i, j : i = job[t] /\ j = [i EXCEPT !.at = a]
    OBVIOUS
  <1>2. job' = [job EXCEPT ![t] = j] /\ i \in Job
    BY <1>1 DEF JobsOK
  <1>3. j = [call |-> i.call, locked |-> i.locked, at |-> a, shown |-> i.shown, unsure |-> i.unsure]
    BY <1>1, <1>2 DEF Job
  <1>4. j \in Job
    BY <1>2, <1>3 DEF Job
  <1>5. job'[t] = j /\ \A u \in Threads \ {t} : job'[u] = job[u]
    BY <1>2 DEF JobsOK
  <1>6. job' \in [Threads -> Job]
    BY <1>2, <1>4 DEF JobsOK
  <1> QED
    BY <1>1, <1>3, <1>5, <1>6

(* A callback that does not take part keeps what it has.                    *)
LEMMA StaysOn ==
  ASSUME NEW t \in Threads, StaysRight(t), JobsOK, NEW T, Onward(T),
         job'[t] = job[t], stays'[t] \subseteq stays[t],
         \A f \in stays'[t] : store[f] # 0 => store'[f] # 0,
         op'[t].at = "list fill" => op'[t] = op[t] \/ \A f \in Files : store[f] # 0 => f \in op'[t].listing
  PROVE  StaysRight(t)'
  <1>1. stays[t] \subseteq Files /\ Unseen(t)' \subseteq Unseen(t) /\ Unseen(t)' \subseteq stays'[t]
    BY DEF Unseen, JobsOK
  <1>2. ASSUME NEW f \in Unseen(t)'
        PROVE  store'[f] # 0 /\ Covered(f)' /\ (op'[t].at = "list fill" => f \in op'[t].listing)
    <2>1. f \in Files /\ store[f] # 0 /\ Covered(f) /\ (op[t].at = "list fill" => f \in op[t].listing)
      BY <1>1 DEF StaysRight, Unseen
    <2>2. store'[f] # 0
      BY <1>1, <2>1
    <2>3. Covered(f)'
      BY <2>1 DEF Onward
    <2> QED
      BY <2>1, <2>2, <2>3
  <1>3. ~Reading(t)' => stays'[t] = {}
    BY DEF StaysRight, Reading
  <1>4. ~job'[t].unsure =>
          /\ job'[t].at \in {"first", "next"} => stays'[t] \subseteq job'[t].shown
          /\ job'[t].at = "deleted" => stays'[t] = {}
    BY DEF StaysRight
  <1> QED
    BY <1>2, <1>3, <1>4 DEF StaysRight

(* What a step of the threads T, one or none, has to show.                  *)
LEMMA StepOK ==
  ASSUME DirInv, world.callbacks, Inv', NEW T \in SUBSET Threads, Onward(T),
         JobsOK', OpenOK',
         \A u \in Threads \ T : job'[u] = job[u] /\ stays'[u] \subseteq stays[u],
         \A u \in Threads \ T : \A f \in stays'[u] : store[f] # 0 => store'[f] # 0,
         \A u \in Threads \ T : mOpen \cap job[u].locked \subseteq mOpen',
         \A t \in T : \A u \in Threads \ {t} : job'[t].locked \cap job'[u].locked = {},
         \A t \in T : StageOK(t)' /\ StaysRight(t)' /\ (op'[t].at \in Listing_ => op'[t].look = Dir),
         \A f \in Files : store'[f] # 0 /\ ~Closing(f)' => (store[f] # 0 /\ ~Closing(f)) \/ Covered(f)'
  PROVE  DirInv'
  <1>1. \A u \in Threads \ T : op'[u] = op[u]
    BY DEF Onward
  <1>2. ASSUME NEW u \in Threads \ T PROVE StageOK(u)'
    <2>1. StageOK(u) /\ op'[u] = op[u] /\ job'[u] = job[u]
      BY <1>1 DEF DirInv
    <2>2. ClosesOne(u) => ClosesOne(u)'
      BY <2>1 DEF ClosesOne
    <2> QED
      BY <2>1, <2>2 DEF StageOK
  <1>3. ASSUME NEW u \in Threads \ T PROVE StaysRight(u)'
    <2>1. StaysRight(u) /\ JobsOK /\ job'[u] = job[u] /\ stays'[u] \subseteq stays[u] /\ op'[u] = op[u]
      BY <1>1 DEF DirInv
    <2>2. \A f \in stays'[u] : store[f] # 0 => store'[f] # 0
      OBVIOUS
    <2> QED
      BY <2>1, <2>2, StaysOn
  <1>4. NoneTwice'
    BY DEF NoneTwice, DirInv
  <1>5. Listable'
    <2> SUFFICES ASSUME NEW f \in Files, store'[f] # 0, ~Closing(f)'
                 PROVE  Covered(f)'
      BY DEF Listable
    <2>1. CASE store[f] # 0 /\ ~Closing(f)
      BY <2>1 DEF DirInv, Listable, Onward
    <2> QED
      BY <2>1
  <1>6. LooksAtDir'
    BY <1>1 DEF LooksAtDir, DirInv
  <1>7. world'.callbacks
    BY DEF Onward
  <1> QED
    BY <1>2, <1>3, <1>4, <1>5, <1>6, <1>7 DEF DirInv

------------------------------------------------------------------------------
(* The callbacks of a file                                                  *)

(* what a change does to an object                                          *)
LEMMA PutStores ==
  ASSUME StoreOK, NEW t \in Threads, NEW f \in Files
  PROVE  /\ Change(t, "putObject", <<f>>) => store'[f] # 0
         /\ FailedChange(t, "putObject", <<f>>) /\ store[f] # 0 => store'[f] # 0
  <1>1. PICK keys : keys = <<f>>
    OBVIOUS
  <1>2. Stored("putObject", keys) = [store EXCEPT ![f] = NewVersion(f)] /\ NewVersion(f) # 0
    BY <1>1 DEF Stored, NewVersion
  <1>3. Stored("putObject", keys)[f] # 0 /\ f \in Keys
    BY <1>2 DEF StoreOK, Keys
  <1>4. ASSUME NEW s, store[f] # 0 \/ f \notin s
        PROVE  Sparing(Stored("putObject", keys), s)[f] # 0
    BY <1>3, <1>4 DEF Sparing
  <1>5. Spared("putObject", keys) = {{}}
    BY DEF Spared
  <1>6. Change(t, "putObject", keys) => store'[f] # 0
    BY <1>4, <1>5 DEF Change
  <1>7. FailedChange(t, "putObject", keys) /\ store[f] # 0 => store'[f] # 0
    BY <1>4 DEF FailedChange
  <1> QED
    BY <1>1, <1>6, <1>7

LEMMA DeletesOrSpares ==
  ASSUME StoreOK, NEW t \in Threads, NEW call \in {"deleteObject", "deleteObjects"},
         NEW keys, Change(t, call, keys), NEW k \in Keys
  PROVE  /\ store'[k] \in {0, store[k]}
         /\ call = "deleteObject" /\ k \in Range(keys) => store'[k] = 0
  <1>1. Stored(call, keys) = [x \in Keys |-> IF x \in Range(keys) THEN 0 ELSE store[x]]
    BY DEF Stored
  <1>2. PICK s \in Spared(call, keys) : store' = Sparing(Stored(call, keys), s)
    BY DEF Change
  <1>3. call = "deleteObject" => s = {}
    BY <1>2 DEF Spared
  <1> QED
    BY <1>1, <1>2, <1>3 DEF Sparing

LEMMA IdleAt == Idle.at = "idle"
  BY DEF Idle

LEMMA OneKey == \A k : Range(<<k>>) = {k}
  BY DEF Range

(* a thread that does not close a file does something                       *)
LEMMA NotClosing ==
  ASSUME NEW f, NEW t, \A u \in Threads \ {t} : op'[u] = op[u] /\ job'[u] = job[u],
         job[t].call # "Close", job'[t].call # "Close"
  PROVE  Closing(f)' <=> Closing(f)
  <1>1. \A u \in Threads : job[u].call = "Close" \/ job'[u].call = "Close" => op'[u] = op[u] /\ job'[u] = job[u]
    OBVIOUS
  <1> QED
    BY <1>1 DEF Closing

LEMMA OpenOrCreateOK ==
  ASSUME DirInv, world.callbacks, Inv', NEW f \in Files, OpenOrCreate(f)
  PROVE  DirInv'
  <1>1. UNCHANGED <<vars, doomed, job, stays>> /\ f \in world.keys \ mOpen /\ mOpen' = mOpen \cup {f}
    BY DEF OpenOrCreate
  <1>2. Onward({}) /\ UNCHANGED <<store, op>>
    BY <1>1, StutterGoes
  <1>3. JobsOK' /\ OpenOK'
    BY <1>1, <1>2 DEF DirInv, JobsOK, OpenOK, Onward
  <1>4. \A g \in Files : store'[g] # 0 /\ ~Closing(g)' => (store[g] # 0 /\ ~Closing(g)) \/ Covered(g)'
    BY <1>1, <1>2 DEF Closing
  <1>5. \A u \in Threads : /\ job'[u] = job[u] /\ stays'[u] \subseteq stays[u]
                           /\ \A g \in stays'[u] : store[g] # 0 => store'[g] # 0
                           /\ mOpen \cap job[u].locked \subseteq mOpen'
    BY <1>1, <1>2
  <1> QED
    BY <1>2, <1>3, <1>4, <1>5, StepOK

LEMMA CloseOnlyOK ==
  ASSUME DirInv, world.callbacks, Inv', NEW f \in Files, CloseOnly(f)
  PROVE  DirInv'
  <1>1. /\ UNCHANGED <<vars, job>> /\ mOpen' = mOpen \ {f} /\ doomed' = doomed \ {f}
        /\ Lost({f} \ InBucket) /\ Unlocked(f)
    BY DEF CloseOnly
  <1>2. Onward({}) /\ UNCHANGED <<store, op>>
    BY <1>1, StutterGoes
  <1>3. stays' \in [Threads -> SUBSET Files] /\ \A u \in Threads : stays'[u] = stays[u] \ ({f} \ InBucket)
    BY <1>1, LostOK DEF DirInv
  <1>4. JobsOK' /\ OpenOK'
    BY <1>1, <1>2, <1>3 DEF DirInv, JobsOK, OpenOK, Onward
  <1>5. \A g \in Files : store'[g] # 0 /\ ~Closing(g)' => (store[g] # 0 /\ ~Closing(g)) \/ Covered(g)'
    BY <1>1, <1>2 DEF Closing
  <1>6. \A u \in Threads : /\ job'[u] = job[u] /\ stays'[u] \subseteq stays[u]
                           /\ \A g \in stays'[u] : store[g] # 0 => store'[g] # 0
                           /\ mOpen \cap job[u].locked \subseteq mOpen'
    BY <1>1, <1>2, <1>3 DEF Unlocked
  <1> QED
    BY <1>2, <1>4, <1>5, <1>6, StepOK

LEMMA DeleteFileOK ==
  ASSUME DirInv, world.callbacks, Inv', NEW t \in Threads, NEW f \in Files, DeleteFile(t, f)
  PROVE  DirInv'
  <1>1. /\ UNCHANGED <<mOpen, job>> /\ doomed' = doomed \cup {f} /\ f \in mOpen /\ job[t] = NoJob /\ Lost({f})
        /\ Change(t, "deleteObject", <<f>>) \/ FailedChange(t, "deleteObject", <<f>>)
    BY DEF DeleteFile
  <1>2. "deleteObject" \in Changing /\ <<f>> \in Changes("deleteObject") /\ Range(<<f>>) = {f}
    BY OneKey DEF Changing, Changes, Keys
  <1>3. /\ Onward({t}) /\ \A k \in Keys \ {f} : store'[k] = store[k]
        /\ op'[t].at \in {"drop head"} \/ op' = op
        /\ store'[f] # 0 => store'[f] = store[f] \/ Covered(f)'
    <2>1. CASE Change(t, "deleteObject", <<f>>)
      <3>1. Onward({t}) /\ op'[t].at = "drop head" /\ \A k \in Keys \ Range(<<f>>) : store'[k] = store[k]
        BY <1>2, <2>1, ChangeGoes DEF DirInv
      <3>2. store'[f] = 0
        BY <1>2, <2>1, DeletesOrSpares DEF DirInv, Inv, Types, Keys
      <3> QED
        BY <1>2, <3>1, <3>2
    <2>2. CASE FailedChange(t, "deleteObject", <<f>>)
      <3>1. /\ Onward({t}) /\ op' = op /\ \A k \in Keys \ Range(<<f>>) : store'[k] = store[k]
            /\ store'[f] # store[f] => Covered(f)'
        BY <1>2, <2>2, FailedChangeGoes DEF DirInv
      <3> QED
        BY <1>2, <3>1
    <2> QED
      BY <1>1, <2>1, <2>2
  <1>4. stays' \in [Threads -> SUBSET Files] /\ \A u \in Threads : stays'[u] = stays[u] \ {f}
    BY <1>1, LostOK DEF DirInv
  <1>5. JobsOK' /\ OpenOK'
    BY <1>1, <1>3, <1>4 DEF DirInv, JobsOK, OpenOK, Onward
  <1>6. \A g \in Files : Closing(g)' <=> Closing(g)
    <2>1. \A u \in Threads \ {t} : op'[u] = op[u] /\ job'[u] = job[u]
      BY <1>1, <1>3 DEF Onward
    <2>2. job[t].call # "Close" /\ job'[t].call # "Close"
      BY <1>1, NoJobOK
    <2> QED
      BY <2>1, <2>2, NotClosing
  <1>7. \A g \in Files : store'[g] # 0 /\ ~Closing(g)' => (store[g] # 0 /\ ~Closing(g)) \/ Covered(g)'
    BY <1>3, <1>6 DEF Keys
  <1>8. \A u \in Threads : /\ job'[u] = job[u] /\ stays'[u] \subseteq stays[u]
                           /\ \A g \in stays'[u] : store[g] # 0 => store'[g] # 0
                           /\ mOpen \cap job[u].locked \subseteq mOpen'
    BY <1>1, <1>3, <1>4 DEF Keys, DirInv, JobsOK
  <1>9. StageOK(t)' /\ StaysRight(t)' /\ (op'[t].at \in Listing_ => op'[t].look = Dir)
    <2>1. StageOK(t)'
      BY <1>1, NoJobOK DEF StageOK
    <2>2. op'[t].at = "list fill" => op'[t] = op[t]
      BY <1>3
    <2>3. StaysRight(t)'
      <3>1. StaysRight(t) /\ JobsOK /\ job'[t] = job[t] /\ stays'[t] \subseteq stays[t]
        BY <1>8 DEF DirInv
      <3> QED
        BY <1>3, <1>8, <2>2, <3>1, StaysOn
    <2>4. op'[t].at \in Listing_ => op'[t].look = Dir
      BY <1>3 DEF DirInv, LooksAtDir, Listing_
    <2> QED
      BY <2>1, <2>3, <2>4
  <1>10. \A u \in Threads \ {t} : job'[t].locked \cap job'[u].locked = {}
    BY <1>1, NoJobOK
  <1> QED
    BY <1>3, <1>5, <1>7, <1>8, <1>9, <1>10, StepOK

LEMMA CloseUploadOK ==
  ASSUME DirInv, world.callbacks, Inv', NEW t \in Threads, NEW f \in Files, CloseUpload(t, f)
  PROVE  DirInv'
  <1>1. /\ UNCHANGED <<mOpen, doomed>> /\ f \in mOpen /\ Unlocked(f)
        /\ Begin(t, "Close", {f}, {}, {}) /\ Change(t, "putObject", <<f>>)
    BY DEF CloseUpload
  <1>2. "putObject" \in Changing /\ <<f>> \in Changes("putObject") /\ Range(<<f>>) = {f}
    BY OneKey DEF Changing, Changes, Keys
  <1>3. /\ Onward({t}) /\ op'[t].at = "drop head" /\ op'[t].drop = <<f>>
        /\ \A k \in Keys \ {f} : store'[k] = store[k]
    <2>1. /\ Onward({t}) /\ op'[t].at = "drop head" /\ op'[t].drop = <<f>>
          /\ \A k \in Keys \ Range(<<f>>) : store'[k] = store[k]
      BY <1>1, <1>2, ChangeGoes DEF DirInv
    <2> QED
      BY <1>2, <2>1
  <1>4. store'[f] # 0
    BY <1>1, PutStores DEF DirInv, Inv, Types
  <1>5. /\ JobsOK' /\ job[t] = NoJob /\ op[t] = Idle
        /\ job'[t].call = "Close" /\ job'[t].locked = {f} /\ job'[t].at = "list" /\ stays'[t] = {}
        /\ \A u \in Threads \ {t} : job'[u] = job[u] /\ stays'[u] = stays[u]
    BY <1>1, BeginOK DEF DirInv
  <1>6. OpenOK'
    BY <1>1, <1>3 DEF DirInv, OpenOK, Onward
  <1>7. ASSUME NEW g \in Files, store'[g] # 0, ~Closing(g)'
        PROVE  store[g] # 0 /\ ~Closing(g)
    <2>1. g # f
      <3>1. op'[t] # Idle
        BY <1>3, IdleAt
      <3> QED
        BY <1>5, <1>7, <3>1 DEF Closing
    <2>2. ~Closing(g)
      BY <1>3, <1>5, <1>7 DEF Closing, Onward, NoJob
    <2> QED
      BY <1>3, <1>7, <2>1, <2>2 DEF Keys
  <1>8. \A u \in Threads \ {t} : \A g \in stays'[u] : store[g] # 0 => store'[g] # 0
    BY <1>3, <1>4, <1>5 DEF Keys, DirInv, JobsOK
  <1>9. StageOK(t)'
    <2>1. ClosesOne(t)'
      BY <1>1, <1>3, <1>5 DEF ClosesOne, Dropping
    <2> QED
      BY <1>5, <2>1 DEF StageOK
  <1>10. StaysRight(t)' /\ (op'[t].at \in Listing_ => op'[t].look = Dir)
    BY <1>3, <1>5 DEF StaysRight, Unseen, Reading, Listing_
  <1>11. \A u \in Threads \ {t} : job'[t].locked \cap job'[u].locked = {}
    BY <1>1, <1>5 DEF Unlocked
  <1> QED
    BY <1>1, <1>3, <1>5, <1>6, <1>7, <1>8, <1>9, <1>10, <1>11, StepOK

LEMMA CloseFailsOK ==
  ASSUME DirInv, world.callbacks, Inv', NEW t \in Threads, NEW f \in Files, CloseFails(t, f)
  PROVE  DirInv'
  <1>1. /\ UNCHANGED <<doomed, job, stays>> /\ mOpen' = mOpen \ {f} /\ f \in mOpen \ doomed /\ Unlocked(f)
        /\ FailedChange(t, "putObject", <<f>>)
    BY DEF CloseFails
  <1>2. "putObject" \in Changing /\ <<f>> \in Changes("putObject") /\ Range(<<f>>) = {f}
    BY OneKey DEF Changing, Changes, Keys
  <1>3. /\ Onward({t}) /\ op' = op
        /\ \A k \in Keys \ Range(<<f>>) : store'[k] = store[k]
        /\ store'[f] # store[f] => Covered(f)'
    BY <1>1, <1>2, FailedChangeGoes DEF DirInv
  <1>4. store[f] # 0 => store'[f] # 0
    BY <1>1, PutStores DEF DirInv, Inv, Types
  <1>5. Onward({})
    BY <1>3 DEF Onward
  <1>6. JobsOK' /\ OpenOK'
    BY <1>1, <1>3 DEF DirInv, JobsOK, OpenOK, Onward
  <1>7. \A g \in Files : store'[g] # 0 /\ ~Closing(g)' => (store[g] # 0 /\ ~Closing(g)) \/ Covered(g)'
    <2>1. \A g \in Files : Closing(g)' <=> Closing(g)
      BY <1>1, <1>3 DEF Closing
    <2> QED
      BY <1>2, <1>3, <2>1 DEF Keys
  <1>8. \A u \in Threads : /\ job'[u] = job[u] /\ stays'[u] \subseteq stays[u]
                           /\ \A g \in stays'[u] : store[g] # 0 => store'[g] # 0
                           /\ mOpen \cap job[u].locked \subseteq mOpen'
    <2>1. \A g \in Files : store[g] # 0 => store'[g] # 0
      BY <1>2, <1>3, <1>4 DEF Keys
    <2> QED
      BY <1>1, <2>1 DEF Unlocked, DirInv, JobsOK
  <1> QED
    BY <1>5, <1>6, <1>7, <1>8, StepOK

LEMMA ReleaseFileOK ==
  ASSUME DirInv, world.callbacks, Inv', NEW t \in Threads, ReleaseFile(t)
  PROVE  DirInv'
  <1>1. /\ UNCHANGED vars /\ Finish(t) /\ job[t].call = "Close" /\ op[t] = Idle
        /\ mOpen' = mOpen \ job[t].locked /\ doomed' = doomed \ job[t].locked
    BY DEF ReleaseFile
  <1>2. Onward({}) /\ UNCHANGED <<store, op>>
    BY <1>1, StutterGoes
  <1>3. /\ JobsOK' /\ job'[t] = NoJob /\ stays'[t] = {}
        /\ \A u \in Threads \ {t} : job'[u] = job[u] /\ stays'[u] = stays[u]
    BY <1>1, FinishOK DEF DirInv
  <1>4. Onward({t})
    BY <1>2 DEF Onward
  <1>5. OpenOK'
    BY <1>1, <1>2 DEF DirInv, OpenOK, Onward
  <1>6. \A g \in Files : store'[g] # 0 /\ ~Closing(g)' => store[g] # 0 /\ ~Closing(g)
    BY <1>1, <1>2, <1>3 DEF Closing
  <1>7. \A u \in Threads \ {t} : mOpen \cap job[u].locked \subseteq mOpen'
    BY <1>1 DEF DirInv, NoneTwice
  <1>8. StageOK(t)' /\ StaysRight(t)'
    BY <1>3, NoJobOK DEF StageOK, StaysRight, Unseen, Reading
  <1>9. op'[t].at \in Listing_ => op'[t].look = Dir
    BY <1>2 DEF DirInv, LooksAtDir
  <1>10. \A u \in Threads \ {t} : job'[t].locked \cap job'[u].locked = {}
    BY <1>3, NoJobOK
  <1> QED
    BY <1>2, <1>3, <1>4, <1>5, <1>6, <1>7, <1>8, <1>9, <1>10, StepOK

------------------------------------------------------------------------------
(* The callbacks of the directory                                           *)

(* a file that is not open is nobody's to close                             *)
LEMMA ClosingIsOpen ==
  ASSUME DirInv, NEW f, Closing(f)
  PROVE  f \in mOpen
  <1>1. PICK u \in Threads : job[u].call = "Close" /\ job[u].locked = {f}
    BY DEF Closing
  <1>2. ClosesOne(u)
    BY <1>1 DEF DirInv, StageOK
  <1> QED
    BY <1>1, <1>2 DEF ClosesOne

LEMMA ReadsOK ==
  ASSUME DirInv, world.callbacks, Inv', NEW t \in Threads, ReadDirectory(t) \/ SetDelete(t)
  PROVE  DirInv'
  <1>1. UNCHANGED <<vars, mOpen, doomed>>
    BY DEF ReadDirectory, SetDelete
  <1>2. Onward({}) /\ UNCHANGED <<store, op>>
    BY <1>1, StutterGoes
  <1>3. mOpen \subseteq Files /\ InBucket \subseteq Files /\ doomed \subseteq mOpen
    BY DEF DirInv, OpenOK, InBucket
  <1>4. /\ JobsOK' /\ job[t] = NoJob /\ op[t] = Idle
        /\ \A u \in Threads \ {t} : job'[u] = job[u] /\ stays'[u] = stays[u]
        /\ job'[t].at = "list" /\ Unseen(t)' \subseteq InBucket \ mOpen
        /\ \/ job'[t].call = "ReadDirectory" /\ job'[t].locked = {}
           \/ job'[t].call = "SetDelete" /\ job'[t].locked = {Dir} /\ Unlocked(Dir)
    <2>1. CASE ReadDirectory(t)
      <3>1. {} \in SUBSET (Files \cup {Dir}) /\ mOpen \in SUBSET Files
            /\ InBucket \cup (mOpen \ doomed) \in SUBSET Files
        BY <1>3
      <3>2. Begin(t, "ReadDirectory", {}, mOpen, InBucket \cup (mOpen \ doomed))
        BY <2>1 DEF ReadDirectory
      <3>3. /\ JobsOK' /\ job[t] = NoJob /\ op[t] = Idle
            /\ job'[t].call = "ReadDirectory" /\ job'[t].locked = {} /\ job'[t].at = "list" /\ job'[t].shown = mOpen
            /\ stays'[t] = InBucket \cup (mOpen \ doomed)
            /\ \A u \in Threads \ {t} : job'[u] = job[u] /\ stays'[u] = stays[u]
        BY <3>1, <3>2, BeginOK DEF DirInv
      <3> QED
        BY <3>3 DEF Unseen
    <2>2. CASE SetDelete(t)
      <3>1. {Dir} \in SUBSET (Files \cup {Dir}) /\ {} \in SUBSET Files /\ InBucket \ mOpen \in SUBSET Files
        BY <1>3
      <3>2. Begin(t, "SetDelete", {Dir}, {}, InBucket \ mOpen) /\ Unlocked(Dir)
        BY <2>2 DEF SetDelete
      <3>3. /\ JobsOK' /\ job[t] = NoJob /\ op[t] = Idle
            /\ job'[t].call = "SetDelete" /\ job'[t].locked = {Dir} /\ job'[t].at = "list" /\ job'[t].shown = {}
            /\ stays'[t] = InBucket \ mOpen
            /\ \A u \in Threads \ {t} : job'[u] = job[u] /\ stays'[u] = stays[u]
        BY <3>1, <3>2, BeginOK DEF DirInv
      <3> QED
        BY <3>2, <3>3 DEF Unseen
    <2> QED
      BY <2>1, <2>2
  <1>5. OpenOK'
    BY <1>1, <1>2 DEF DirInv, OpenOK, Onward
  <1>6. Onward({t})
    BY <1>2 DEF Onward
  <1>7. \A g \in Files : store'[g] # 0 /\ ~Closing(g)' => store[g] # 0 /\ ~Closing(g)
    <2>1. job[t].call # "Close" /\ job'[t].call # "Close"
      BY <1>4, NoJobOK
    <2>2. \A g \in Files : Closing(g)' <=> Closing(g)
      BY <1>2, <1>4, <2>1, NotClosing
    <2> QED
      BY <1>2, <2>2
  <1>8. StageOK(t)'
    BY <1>2, <1>4 DEF StageOK, Stages
  <1>9. StaysRight(t)'
    <2>1. ASSUME NEW f \in Unseen(t)'
          PROVE  store'[f] # 0 /\ Covered(f)' /\ op'[t].at # "list fill"
      <3>1. f \in Files /\ store[f] # 0 /\ f \notin mOpen
        BY <1>3, <1>4 DEF InBucket
      <3>2. ~Closing(f)
        BY <3>1, ClosingIsOpen
      <3>3. Covered(f)
        BY <3>1, <3>2 DEF DirInv, Listable
      <3> QED
        BY <1>2, <1>4, <3>1, <3>3, IdleAt DEF Onward
    <2> QED
      BY <1>4, <2>1 DEF StaysRight, Reading
  <1>10. op'[t].at \in Listing_ => op'[t].look = Dir
    BY <1>2 DEF DirInv, LooksAtDir
  <1>11. \A u \in Threads \ {t} : job'[t].locked \cap job'[u].locked = {}
    BY <1>4 DEF Unlocked
  <1>12. \A u \in Threads \ {t} : /\ stays'[u] \subseteq stays[u]
                                  /\ \A g \in stays'[u] : store[g] # 0 => store'[g] # 0
                                  /\ mOpen \cap job[u].locked \subseteq mOpen'
    BY <1>1, <1>2, <1>4
  <1> QED
    BY <1>4, <1>5, <1>6, <1>7, <1>8, <1>9, <1>10, <1>11, <1>12, StepOK

(* a callback is over without a step of its operation                       *)
LEMMA EndsOK ==
  ASSUME DirInv, world.callbacks, Inv', NEW t \in Threads, Finish(t), UNCHANGED <<mOpen, doomed>>,
         job[t].call # "Close", Onward({t}), store' = store, op'[t] = op[t] \/ op'[t].at \notin Listing_
  PROVE  DirInv'
  <1>1. /\ JobsOK' /\ job'[t] = NoJob /\ stays'[t] = {}
        /\ \A u \in Threads \ {t} : job'[u] = job[u] /\ stays'[u] = stays[u]
    BY FinishOK DEF DirInv
  <1>2. OpenOK'
    BY DEF DirInv, OpenOK, Onward
  <1>3. \A g \in Files : store'[g] # 0 /\ ~Closing(g)' => store[g] # 0 /\ ~Closing(g)
    <2>1. job[t].call # "Close" /\ job'[t].call # "Close"
      BY <1>1, NoJobOK
    <2>2. \A u \in Threads \ {t} : op'[u] = op[u] /\ job'[u] = job[u]
      BY <1>1 DEF Onward
    <2>3. \A g \in Files : Closing(g)' <=> Closing(g)
      BY <2>1, <2>2, NotClosing
    <2> QED
      BY <2>3
  <1>4. StageOK(t)' /\ StaysRight(t)'
    BY <1>1, NoJobOK DEF StageOK, StaysRight, Unseen, Reading
  <1>5. op'[t].at \in Listing_ => op'[t].look = Dir
    BY DEF DirInv, LooksAtDir
  <1>6. \A u \in Threads \ {t} : job'[t].locked \cap job'[u].locked = {}
    BY <1>1, NoJobOK
  <1>7. \A u \in Threads \ {t} : /\ stays'[u] \subseteq stays[u]
                                 /\ \A g \in stays'[u] : store[g] # 0 => store'[g] # 0
                                 /\ mOpen \cap job[u].locked \subseteq mOpen'
    BY <1>1
  <1> QED
    BY <1>1, <1>2, <1>3, <1>4, <1>5, <1>6, <1>7, StepOK

LEMMA ShowOK ==
  ASSUME DirInv, world.callbacks, Inv', NEW t \in Threads, Show(t) \/ Return(t)
  PROVE  DirInv'
  <1>1. Finish(t) /\ UNCHANGED <<vars, mOpen, doomed>>
    BY DEF Show, Return
  <1>2. job[t].call # "Close"
    BY DEF Show, Return, DirInv, StageOK
  <1>3. Onward({}) /\ UNCHANGED <<store, op>>
    BY <1>1, StutterGoes
  <1>4. Onward({t})
    BY <1>3 DEF Onward
  <1> QED
    BY <1>1, <1>2, <1>3, <1>4, EndsOK

(* a callback's operation goes on, and the callback stays where it is       *)
LEMMA WorksOK ==
  ASSUME DirInv, world.callbacks, Inv', NEW t \in Threads, UNCHANGED <<mOpen, doomed, job, stays>>,
         Onward({t}), store' = store, Reading(t), job[t].at \notin {"first", "next"},
         op'[t].at \in Listing_ => op'[t].look = Dir,
         op'[t].at = "list fill" => op'[t] = op[t] \/ \A f \in Files : store[f] # 0 => f \in op'[t].listing
  PROVE  DirInv'
  <1>1. JobsOK' /\ OpenOK'
    BY DEF DirInv, JobsOK, OpenOK, Onward
  <1>2. \A g \in Files : store'[g] # 0 /\ ~Closing(g)' => store[g] # 0 /\ ~Closing(g)
    <2>1. job[t].call # "Close" /\ job'[t].call # "Close"
      BY DEF Reading
    <2>2. \A u \in Threads \ {t} : op'[u] = op[u] /\ job'[u] = job[u]
      BY DEF Onward
    <2>3. \A g \in Files : Closing(g)' <=> Closing(g)
      BY <2>1, <2>2, NotClosing
    <2> QED
      BY <2>3
  <1>3. StageOK(t)'
    BY DEF DirInv, StageOK, Reading
  <1>4. StaysRight(t)'
    <2>1. StaysRight(t) /\ JobsOK /\ job'[t] = job[t] /\ stays'[t] \subseteq stays[t]
      BY DEF DirInv
    <2>2. \A f \in stays'[t] : store[f] # 0 => store'[f] # 0
      OBVIOUS
    <2> QED
      BY <2>1, <2>2, StaysOn
  <1>5. \A u \in Threads \ {t} : job'[t].locked \cap job'[u].locked = {}
    BY DEF DirInv, NoneTwice
  <1>6. \A u \in Threads \ {t} : /\ job'[u] = job[u] /\ stays'[u] \subseteq stays[u]
                                 /\ \A g \in stays'[u] : store[g] # 0 => store'[g] # 0
                                 /\ mOpen \cap job[u].locked \subseteq mOpen'
    OBVIOUS
  <1> QED
    BY <1>1, <1>2, <1>3, <1>4, <1>5, <1>6, StepOK

LEMMA ListCallOK ==
  ASSUME DirInv, world.callbacks, Inv', NEW t \in Threads, List(t)
  PROVE  DirInv'
  <1>1. Reading(t) /\ job[t].at \notin {"first", "next"} /\ UNCHANGED <<mOpen, doomed>>
    BY DEF List, Reading
  <1>2. CASE Finish(t) /\ UNCHANGED vars
    <2>1. Onward({}) /\ UNCHANGED <<store, op>>
      BY <1>2, StutterGoes
    <2>2. Onward({t})
      BY <2>1 DEF Onward
    <2> QED
      BY <1>1, <1>2, <2>1, <2>2, EndsOK DEF Reading
  <1>3. CASE UNCHANGED <<job, stays>> /\ \E call : ListIsNegative(t, Dir, call)
    <2>1. /\ Onward({t}) /\ store' = store
          /\ op'[t].at = "list positive" /\ op'[t].look = Dir
      BY <1>3, ListBegins DEF DirInv
    <2> QED
      BY <1>1, <1>3, <2>1, WorksOK
  <1> QED
    BY <1>2, <1>3 DEF List

(* A listing is there: it has what the callback still wants.                *)
LEMMA ListStepOK ==
  ASSUME DirInv, world.callbacks, Inv', NEW t \in Threads, ListStep(t)
  PROVE  DirInv'
  <1> DEFINE cached  == op[t].at = "list positive"
             listing == IF cached THEN listPositive[Dir] ELSE op[t].listing
             over    == op'[t] = Idle
  <1>1. job[t].at \in {"list", "list again"} /\ ListUp(t) /\ UNCHANGED <<mOpen, doomed>>
    BY DEF ListStep
  <1>2. op[t].at \in Listing_ /\ op[t].look = Dir
    <2>1. op[t].at \in Listing_
      BY <1>1 DEF ListUp, ListIsPositive, AskList, FillList, Listing_
    <2> QED
      BY <2>1 DEF DirInv, LooksAtDir
  <1>3. Reading(t)
    <2>1. job[t] \in Job /\ StageOK(t)
      BY DEF DirInv, JobsOK
    <2>2. job[t].call # "none"
      BY <1>1, <2>1, NoJobOK DEF StageOK
    <2>3. job[t].call # "Close"
      BY <1>2, <2>1, IdleAt DEF StageOK, ClosesOne, Listing_, Dropping
    <2> QED
      BY <2>1, <2>2, <2>3 DEF Reading, Job
  <1>4. Onward({t}) /\ store' = store /\ GoesOnListing(t)
    BY <1>1, <1>2, ListGoes DEF DirInv
  <1>5. CASE ~over
    <2>1. UNCHANGED <<job, stays>>
      BY <1>5 DEF ListStep
    <2>2. op'[t].at \in Listing_ => op'[t].look = Dir
      BY <1>2, <1>4 DEF GoesOnListing
    <2>3. op'[t].at = "list fill" => \A f \in Files : store[f] # 0 => f \in op'[t].listing
      BY <1>2, <1>4, DirKnown DEF GoesOnListing
    <2> QED
      BY <1>1, <1>3, <1>4, <2>1, <2>2, <2>3, WorksOK
  <1>6. CASE over /\ op[t].at = "list failed"
    <2>1. Finish(t)
      BY <1>6 DEF ListStep
    <2>2. op'[t].at \notin Listing_
      BY <1>6, IdleAt DEF Listing_
    <2> QED
      BY <1>1, <1>3, <1>4, <2>1, <2>2, EndsOK DEF Reading
  <1>7. CASE over /\ op[t].at # "list failed"
    <2>1. PICK a, shown, unsure :
            /\ a = IF job[t].at = "list" THEN "first" ELSE "next"
            /\ shown = IF job[t].call = "SetDelete" THEN listing ELSE job[t].shown \cup listing
            /\ unsure = (job[t].unsure \/ (cached /\ Doubted("list", Dir)))
      OBVIOUS
    <2>2. PICK i, j : i = job[t] /\ j = [i EXCEPT !.at = a, !.shown = shown, !.unsure = unsure]
      OBVIOUS
    <2>3. job' = [job EXCEPT ![t] = j] /\ UNCHANGED stays
      BY <1>7, <2>1, <2>2 DEF ListStep, ToShow
    <2>4. i \in Job /\ StageOK(t) /\ StaysRight(t)
      BY <2>2 DEF DirInv, JobsOK
    <2>5. j = [call |-> i.call, locked |-> i.locked, at |-> a, shown |-> shown, unsure |-> unsure]
      BY <2>2, <2>4 DEF Job
    <2>6. \/ op[t].at = "list positive" /\ Dir \in DOMAIN listPositive
          \/ op[t].at = "list fill"
      <3>1. ~AskList(t)
        <4>1. CASE op' = [op EXCEPT ![t].at = "list failed"]
          <5>1. PICK b : b = "list failed"
            OBVIOUS
          <5>2. op' = [op EXCEPT ![t] = With(op[t], b, op[t].look, op[t].got)]
            BY <4>1, <5>1, Known, GotoWith DEF DirInv
          <5>3. op'[t].at = b
            BY <5>2, Known DEF With, DirInv
          <5> QED
            BY <1>7, <5>1, <5>3, IdleAt
        <4>2. CASE op' = [op EXCEPT ![t] = [@ EXCEPT !.at = "list fill", !.listing = Listing(op[t].look)]]
          <5>1. PICK o : o = [op[t] EXCEPT !.at = "list fill", !.listing = Listing(op[t].look)]
            OBVIOUS
          <5>2. op' = [op EXCEPT ![t] = o] /\ o.at = "list fill"
            BY <4>2, <5>1, Known DEF Operation, DirInv
          <5>3. op'[t].at = "list fill"
            BY <5>2, Known DEF DirInv
          <5> QED
            BY <1>7, <5>3, IdleAt
        <4> QED
          BY <4>1, <4>2 DEF AskList, Goto
      <3>2. CASE ListIsPositive(t)
        <4>1. op[t].at = "list positive"
          BY <3>2 DEF ListIsPositive
        <4>2. ASSUME Dir \notin DOMAIN listPositive PROVE FALSE
          <5>1. op' = [op EXCEPT ![t].at = "list ask"]
            BY <1>2, <3>2, <4>2 DEF ListIsPositive, Goto
          <5>2. PICK b : b = "list ask"
            OBVIOUS
          <5>3. op' = [op EXCEPT ![t] = With(op[t], b, op[t].look, op[t].got)]
            BY <5>1, <5>2, Known, GotoWith DEF DirInv
          <5>4. op'[t].at = b
            BY <5>3, Known DEF With, DirInv
          <5> QED
            BY <1>7, <5>2, <5>4, IdleAt
        <4> QED
          BY <4>1, <4>2
      <3>3. CASE FillList(t)
        BY <1>7, <3>3 DEF FillList
      <3> QED
        BY <1>1, <3>1, <3>2, <3>3 DEF ListUp
    <2>7. listing \subseteq Files
      <3>1. \A k \in Keys : Parent[k] = Dir => k \in Files
        BY DirKnown, ParentKnown, KeysApart DEF Keys
      <3>2. CASE op[t].at = "list positive"
        BY <2>6, <3>1, <3>2 DEF DirInv, Inv, Types, ListOK
      <3>3. CASE op[t].at = "list fill"
        <4>1. OperationOK(op[t]) /\ op[t].listing \subseteq Keys
          BY Known, Fields DEF DirInv
        <4> QED
          BY <1>2, <3>1, <3>3, <4>1 DEF OperationOK
      <3> QED
        BY <2>6, <3>2, <3>3
    <2>8. shown \subseteq Files /\ a \in {"first", "next"} /\ a \in Stages
      BY <2>1, <2>2, <2>4, <2>7 DEF Job, Stages
    <2>9. unsure \in BOOLEAN
      <3>1. job[t].unsure \in BOOLEAN
        BY <2>2, <2>4 DEF Job
      <3> QED
        BY <2>1, <3>1
    <2>10. j \in Job
      BY <2>4, <2>5, <2>8, <2>9 DEF Job
    <2>11. /\ job'[t] = j /\ \A u \in Threads \ {t} : job'[u] = job[u]
           /\ JobsOK'
      BY <2>3, <2>10 DEF DirInv, JobsOK
    <2>12. OpenOK'
      BY <1>1, <1>4 DEF DirInv, OpenOK, Onward
    <2>13. \A g \in Files : store'[g] # 0 /\ ~Closing(g)' => store[g] # 0 /\ ~Closing(g)
      <3>1. job[t].call # "Close" /\ job'[t].call # "Close"
        BY <1>3, <2>2, <2>5, <2>11 DEF Reading
      <3>2. \A u \in Threads \ {t} : op'[u] = op[u] /\ job'[u] = job[u]
        BY <1>4, <2>11 DEF Onward
      <3>3. \A g \in Files : Closing(g)' <=> Closing(g)
        BY <3>1, <3>2, NotClosing
      <3> QED
        BY <1>4, <3>3
    <2>14. StageOK(t)'
      <3>1. job[t].call = "ReadDirectory" => a = "first"
        BY <1>1, <2>1, <2>4 DEF StageOK
      <3>2. job'[t].call = job[t].call /\ job'[t].locked = job[t].locked /\ job'[t].at = a
        BY <2>2, <2>5, <2>11
      <3> QED
        BY <1>3, <1>7, <2>4, <2>8, <3>1, <3>2 DEF StageOK, Reading
    <2>15. Unseen(t) \subseteq Files /\ \A f \in Unseen(t) : unsure \/ f \in listing
      <3>1. stays[t] \subseteq Files
        BY DEF DirInv, JobsOK
      <3>2. ASSUME NEW f \in Unseen(t), ~unsure PROVE f \in listing
        <4>1. CASE op[t].at = "list positive"
          <5>1. Covered(f) /\ <<"list", Dir>> \notin doubt
            BY <2>1, <2>4, <3>2, <4>1 DEF StaysRight, Doubted
          <5> QED
            BY <2>6, <4>1, <5>1 DEF Covered
        <4>2. CASE op[t].at = "list fill"
          BY <2>4, <4>2 DEF StaysRight
        <4> QED
          BY <2>6, <4>1, <4>2
      <3> QED
        BY <3>1, <3>2 DEF Unseen
    <2>16. StaysRight(t)'
      <3>1. Unseen(t)' \subseteq Unseen(t)
        <4>1. job'[t].call = job[t].call /\ job'[t].shown = shown /\ stays'[t] = stays[t]
          BY <2>2, <2>3, <2>5, <2>11
        <4>2. job[t].call = "ReadDirectory" => job[t].shown \subseteq shown
          BY <2>1
        <4> QED
          BY <4>1, <4>2 DEF Unseen
      <3>2. \A f \in Unseen(t)' : store'[f] # 0 /\ Covered(f)' /\ op'[t].at # "list fill"
        BY <1>4, <1>7, <2>4, <2>15, <3>1, IdleAt DEF StaysRight, Onward
      <3>3. ~unsure => stays[t] \subseteq shown
        BY <2>1, <2>15 DEF Unseen
      <3>4. job'[t].unsure = unsure /\ job'[t].shown = shown /\ job'[t].at = a /\ job'[t].call = job[t].call
        BY <2>2, <2>5, <2>11
      <3>5. Reading(t)' /\ stays'[t] = stays[t]
        BY <1>3, <2>3, <3>4 DEF Reading
      <3> QED
        BY <2>8, <3>2, <3>3, <3>4, <3>5 DEF StaysRight
    <2>17. \A u \in Threads \ {t} : job'[t].locked \cap job'[u].locked = {}
      BY <2>2, <2>5, <2>11 DEF DirInv, NoneTwice
    <2>18. \A u \in Threads \ {t} : /\ stays'[u] \subseteq stays[u]
                                    /\ \A g \in stays'[u] : store[g] # 0 => store'[g] # 0
                                    /\ mOpen \cap job[u].locked \subseteq mOpen'
      BY <1>1, <1>4, <2>3
    <2>19. op'[t].at \in Listing_ => op'[t].look = Dir
      BY <1>7, IdleAt DEF Listing_
    <2> QED
      BY <1>4, <2>11, <2>12, <2>13, <2>14, <2>16, <2>17, <2>18, <2>19, StepOK
  <1> QED
    BY <1>5, <1>6, <1>7

LEMMA DeletesFilesOnly ==
  ASSUME DirInv, NEW t \in Threads, NEW keys \in Removed(t)
  PROVE  /\ keys \in Changes("deleteObjects") /\ "deleteObjects" \in Changing
         /\ Range(keys) = job[t].shown
  BY DEF Removed, Changing

LEMMA DeletingOK ==
  ASSUME DirInv, NEW t \in Threads, Deletes(t)
  PROVE  /\ job[t].call = "SetDelete" /\ job[t].locked = {Dir} /\ job[t].at \in {"first", "next"}
         /\ ~job[t].unsure => stays[t] \subseteq job[t].shown
         /\ op[t] = Idle
  BY DEF Deletes, DirInv, StageOK, StaysRight

LEMMA DeleteFilesOK ==
  ASSUME DirInv, world.callbacks, Inv', NEW t \in Threads, DeleteFiles(t)
  PROVE  DirInv'
  <1>1. PICK keys \in Removed(t) : Change(t, "deleteObjects", keys)
    BY DEF DeleteFiles
  <1>2. /\ doomed' = doomed \cup (job[t].shown \cap mOpen) /\ mOpen' = mOpen
        /\ Lost(job[t].shown \ InBucket') /\ Deletes(t)
    BY DEF DeleteFiles
  <1>3. /\ keys \in Changes("deleteObjects") /\ "deleteObjects" \in Changing
        /\ Range(keys) = job[t].shown
    BY DeletesFilesOnly
  <1>4. /\ Onward({t}) /\ op'[t].at = "drop head"
        /\ \A k \in Keys \ Range(keys) : store'[k] = store[k]
    BY <1>1, <1>3, ChangeGoes DEF DirInv
  <1>5. \A k \in Keys : store'[k] \in {0, store[k]}
    BY <1>1, DeletesOrSpares DEF DirInv, Inv, Types
  <1>6. job[t].call = "SetDelete" /\ job[t].locked = {Dir}
    BY <1>2, DeletingOK
  <1>7. PICK a \in Stages : a = "list again"
    BY DEF Stages
  <1>8. job' = [job EXCEPT ![t].at = a]
    BY <1>7 DEF DeleteFiles
  <1>9. /\ job' \in [Threads -> Job]
        /\ job'[t].call = job[t].call /\ job'[t].locked = job[t].locked /\ job'[t].at = a
        /\ \A u \in Threads \ {t} : job'[u] = job[u]
    BY <1>8, StageSet DEF DirInv
  <1>10. /\ stays' \in [Threads -> SUBSET Files]
         /\ \A u \in Threads : stays'[u] = stays[u] \ (job[t].shown \ InBucket')
    BY <1>2, LostOK DEF DirInv
  <1>11. JobsOK' /\ OpenOK'
    BY <1>2, <1>4, <1>9, <1>10 DEF DirInv, JobsOK, OpenOK, Onward
  <1>12. \A u \in Threads : \A f \in stays'[u] : store[f] # 0 => store'[f] # 0
    <2> SUFFICES ASSUME NEW u \in Threads, NEW f \in stays'[u], store[f] # 0
                 PROVE  store'[f] # 0
      OBVIOUS
    <2>1. f \in Keys /\ f \in Files
      BY <1>10 DEF Keys
    <2>2. CASE f \in job[t].shown
      BY <1>10, <2>1, <2>2 DEF InBucket
    <2>3. CASE f \notin job[t].shown
      BY <1>3, <1>4, <2>1, <2>3
    <2> QED
      BY <2>2, <2>3
  <1>13. \A g \in Files : store'[g] # 0 /\ ~Closing(g)' => store[g] # 0 /\ ~Closing(g)
    <2>1. job[t].call # "Close" /\ job'[t].call # "Close"
      BY <1>6, <1>9
    <2>2. \A u \in Threads \ {t} : op'[u] = op[u] /\ job'[u] = job[u]
      BY <1>4, <1>9 DEF Onward
    <2>3. \A g \in Files : Closing(g)' <=> Closing(g)
      BY <2>1, <2>2, NotClosing
    <2> QED
      BY <1>5, <2>3 DEF Keys
  <1>14. StageOK(t)'
    BY <1>6, <1>7, <1>9 DEF StageOK
  <1>15. StaysRight(t)'
    <2>1. Unseen(t)' = stays'[t] /\ Unseen(t) = stays[t] /\ Reading(t)'
      BY <1>6, <1>9 DEF Unseen, Reading
    <2>2. ASSUME NEW f \in stays'[t] PROVE store'[f] # 0 /\ Covered(f)'
      <3>1. f \in Files /\ f \in Unseen(t)
        BY <1>10, <2>1, <2>2
      <3>2. store[f] # 0 /\ Covered(f)
        BY <3>1 DEF DirInv, StaysRight
      <3> QED
        BY <1>4, <1>12, <2>2, <3>1, <3>2 DEF Onward
    <2> QED
      BY <1>4, <1>7, <1>9, <2>1, <2>2 DEF StaysRight
  <1>16. op'[t].at \in Listing_ => op'[t].look = Dir
    BY <1>4 DEF Listing_
  <1>17. \A u \in Threads \ {t} : job'[t].locked \cap job'[u].locked = {}
    BY <1>9 DEF DirInv, NoneTwice
  <1>18. \A u \in Threads \ {t} : stays'[u] \subseteq stays[u] /\ mOpen \cap job[u].locked \subseteq mOpen'
    BY <1>2, <1>10
  <1> QED
    BY <1>4, <1>9, <1>11, <1>12, <1>13, <1>14, <1>15, <1>16, <1>17, <1>18, StepOK

LEMMA DirChange ==
  /\ "deleteObject" \in Changing /\ <<Dir>> \in Changes("deleteObject")
  /\ Range(<<Dir>>) = {Dir} /\ Dir \in Keys /\ Dir \notin Files
  BY DirKnown, KeysApart, OneKey DEF Changing, Changes, Keys

LEMMA DeleteDirOK ==
  ASSUME DirInv, world.callbacks, Inv', NEW t \in Threads, DeleteDir(t)
  PROVE  DirInv'
  <1>1. Deletes(t) /\ job[t].shown = {} /\ Change(t, "deleteObject", <<Dir>>) /\ UNCHANGED <<mOpen, doomed, stays>>
    BY DEF DeleteDir
  <1>2. /\ Onward({t}) /\ op'[t].at = "drop head"
        /\ \A k \in Keys \ Range(<<Dir>>) : store'[k] = store[k]
    BY <1>1, DirChange, ChangeGoes DEF DirInv
  <1>3. \A f \in Files : store'[f] = store[f]
    BY <1>2, DirChange DEF Keys
  <1>4. /\ job[t].call = "SetDelete" /\ job[t].locked = {Dir}
        /\ ~job[t].unsure => stays[t] = {}
    BY <1>1, DeletingOK
  <1>5. PICK a \in Stages : a = "deleted"
    BY DEF Stages
  <1>6. job' = [job EXCEPT ![t].at = a]
    BY <1>5 DEF DeleteDir
  <1>7. /\ job' \in [Threads -> Job]
        /\ job'[t].call = job[t].call /\ job'[t].locked = job[t].locked /\ job'[t].at = a
        /\ job'[t].unsure = job[t].unsure
        /\ \A u \in Threads \ {t} : job'[u] = job[u]
    BY <1>6, StageSet DEF DirInv
  <1>8. JobsOK' /\ OpenOK'
    BY <1>1, <1>2, <1>7 DEF DirInv, JobsOK, OpenOK, Onward
  <1>9. \A g \in Files : store'[g] # 0 /\ ~Closing(g)' => store[g] # 0 /\ ~Closing(g)
    <2>1. job[t].call # "Close" /\ job'[t].call # "Close"
      BY <1>4, <1>7
    <2>2. \A u \in Threads \ {t} : op'[u] = op[u] /\ job'[u] = job[u]
      BY <1>2, <1>7 DEF Onward
    <2>3. \A g \in Files : Closing(g)' <=> Closing(g)
      BY <2>1, <2>2, NotClosing
    <2> QED
      BY <1>3, <2>3
  <1>10. StageOK(t)'
    BY <1>4, <1>5, <1>7 DEF StageOK
  <1>11. StaysRight(t)'
    <2>1. Unseen(t)' = stays[t] /\ Unseen(t) = stays[t] /\ Reading(t)' /\ stays[t] \subseteq Files
      BY <1>1, <1>4, <1>7 DEF Unseen, Reading, DirInv, JobsOK
    <2>2. \A f \in stays[t] : store'[f] # 0 /\ Covered(f)'
      BY <1>2, <1>3, <2>1 DEF DirInv, StaysRight, Onward
    <2> QED
      BY <1>1, <1>2, <1>4, <1>5, <1>7, <2>1, <2>2 DEF StaysRight
  <1>12. op'[t].at \in Listing_ => op'[t].look = Dir
    BY <1>2 DEF Listing_
  <1>13. \A u \in Threads \ {t} : job'[t].locked \cap job'[u].locked = {}
    BY <1>7 DEF DirInv, NoneTwice
  <1>14. \A u \in Threads \ {t} : /\ stays'[u] \subseteq stays[u]
                                  /\ \A g \in stays'[u] : store[g] # 0 => store'[g] # 0
                                  /\ mOpen \cap job[u].locked \subseteq mOpen'
    <2>1. \A u \in Threads : stays'[u] = stays[u] /\ stays[u] \subseteq Files
      BY <1>1 DEF DirInv, JobsOK
    <2> QED
      BY <1>1, <1>3, <2>1
  <1> QED
    BY <1>2, <1>7, <1>8, <1>9, <1>10, <1>11, <1>12, <1>13, <1>14, StepOK

(* what SetDelete leaves behind when it gives up                            *)
LEMMA GiveUpOK ==
  ASSUME DirInv, world.callbacks, Inv', NEW t \in Threads, GiveUp(t)
  PROVE  DirInv'
  <1>1. /\ job' = [job EXCEPT ![t] = NoJob] /\ mOpen' = mOpen
        /\ stays' = [u \in Threads |-> IF u = t THEN {}
                                       ELSE stays[u] \ ((doomed' \cup InBucket) \ InBucket')]
        /\ job[t].call = "SetDelete"
    BY DEF GiveUp
  <1>2. /\ Onward({t}) /\ op' = op
        /\ \A f \in Files : store'[f] # store[f] => Covered(f)'
        /\ doomed' \subseteq doomed \cup mOpen
    <2>1. CASE /\ UNCHANGED vars
               /\ \E fs \in SUBSET (IF Deletes(t) THEN job[t].shown \cap mOpen ELSE {}) : doomed' = doomed \cup fs
      <3>1. Onward({}) /\ UNCHANGED <<store, op>>
        BY <2>1, StutterGoes
      <3>2. Onward({t})
        BY <3>1 DEF Onward
      <3>3. doomed' \subseteq doomed \cup mOpen
        BY <2>1
      <3> QED
        BY <3>1, <3>2, <3>3
    <2>2. CASE /\ \E keys \in Removed(t) : FailedChange(t, "deleteObjects", keys)
               /\ doomed' = doomed \cup (job[t].shown \cap mOpen)
      <3>1. PICK keys \in Removed(t) : FailedChange(t, "deleteObjects", keys)
        BY <2>2
      <3>2. keys \in Changes("deleteObjects") /\ "deleteObjects" \in Changing
        BY DeletesFilesOnly
      <3>3. Onward({t}) /\ op' = op /\ \A f \in Files : store'[f] # store[f] => Covered(f)'
        BY <3>1, <3>2, FailedChangeGoes DEF DirInv
      <3> QED
        BY <2>2, <3>3
    <2>3. CASE FailedChange(t, "deleteObject", <<Dir>>) /\ UNCHANGED doomed
      <3>1. Onward({t}) /\ op' = op /\ \A f \in Files : store'[f] # store[f] => Covered(f)'
        BY <2>3, DirChange, FailedChangeGoes DEF DirInv
      <3> QED
        BY <2>3, <3>1
    <2> QED
      BY <2>1, <2>2, <2>3 DEF GiveUp
  <1>3. /\ job' \in [Threads -> Job] /\ job'[t] = NoJob
        /\ \A u \in Threads \ {t} : job'[u] = job[u]
    BY <1>1, NoJobOK DEF DirInv, JobsOK
  <1>4. /\ stays' \in [Threads -> SUBSET Files] /\ stays'[t] = {}
        /\ \A u \in Threads \ {t} : stays'[u] = stays[u] \ ((doomed' \cup InBucket) \ InBucket')
    BY <1>1 DEF DirInv, JobsOK
  <1>5. JobsOK' /\ OpenOK'
    BY <1>1, <1>2, <1>3, <1>4 DEF DirInv, JobsOK, OpenOK, Onward
  <1>6. \A u \in Threads \ {t} : \A f \in stays'[u] : store[f] # 0 => store'[f] # 0
    BY <1>4 DEF InBucket
  <1>7. \A g \in Files : store'[g] # 0 /\ ~Closing(g)' => (store[g] # 0 /\ ~Closing(g)) \/ Covered(g)'
    <2>1. job[t].call # "Close" /\ job'[t].call # "Close"
      BY <1>1, <1>3, NoJobOK
    <2>2. \A g \in Files : Closing(g)' <=> Closing(g)
      BY <1>2, <1>3, <2>1, NotClosing
    <2> QED
      BY <1>2, <2>2
  <1>8. StageOK(t)' /\ StaysRight(t)'
    BY <1>3, <1>4, NoJobOK DEF StageOK, StaysRight, Unseen, Reading
  <1>9. op'[t].at \in Listing_ => op'[t].look = Dir
    BY <1>2 DEF DirInv, LooksAtDir
  <1>10. \A u \in Threads \ {t} : job'[t].locked \cap job'[u].locked = {}
    BY <1>3, NoJobOK
  <1>11. \A u \in Threads \ {t} : stays'[u] \subseteq stays[u] /\ mOpen \cap job[u].locked \subseteq mOpen'
    BY <1>1, <1>4
  <1> QED
    BY <1>2, <1>3, <1>5, <1>6, <1>7, <1>8, <1>9, <1>10, <1>11, StepOK

------------------------------------------------------------------------------
(* An invalidation goes on, or the timer drops the listing.                 *)
LEMMA InvalidateOK ==
  ASSUME DirInv, world.callbacks, Inv', NEW t \in Threads, Invalidate(t), UNCHANGED <<mOpen, doomed, job, stays>>
  PROVE  DirInv'
  <1>1. /\ Onward({t}) /\ store' = store
        /\ op[t].at \in Dropping /\ op'[t].at \in Dropping \cup {"idle"}
        /\ \A f \in Files : op[t].drop = <<f>> =>
             \/ op'[t].at \in Dropping /\ op'[t].drop = <<f>>
             \/ \A g \in Files : Covered(g)'
    BY InvalidateGoes DEF DirInv
  <1>2. op'[t].at = "idle" => op'[t] = Idle
    BY DEF Inv, Types, OpsOK, OperationOK
  <1>3. StageOK(t) /\ StaysRight(t) /\ op[t] # Idle
    BY <1>1, IdleAt DEF DirInv, Dropping
  <1>4. JobsOK' /\ OpenOK'
    BY <1>1 DEF DirInv, JobsOK, OpenOK, Onward
  <1>5. ASSUME NEW g \in Files, store'[g] # 0, ~Closing(g)'
        PROVE  (store[g] # 0 /\ ~Closing(g)) \/ Covered(g)'
    <2>1. CASE ~Closing(g)
      BY <1>1, <1>5, <2>1
    <2>2. CASE Closing(g)
      <3>1. PICK u \in Threads : job[u].call = "Close" /\ job[u].locked = {g} /\ op[u] # Idle
        BY <2>2 DEF Closing
      <3>2. op'[u] = Idle
        BY <1>5, <3>1 DEF Closing
      <3>3. u = t
        BY <1>1, <3>1, <3>2 DEF Onward
      <3>4. op[t].drop = <<g>>
        <4>1. ClosesOne(t)
          BY <1>3, <3>1, <3>3 DEF StageOK
        <4>2. PICK f \in mOpen : job[t].locked = {f} /\ op[t].drop = <<f>>
          BY <1>3, <4>1 DEF ClosesOne
        <4> QED
          BY <3>1, <3>3, <4>2
      <3>5. op'[t].at \notin Dropping
        BY <3>2, <3>3, IdleAt DEF Dropping
      <3> QED
        BY <1>1, <3>4, <3>5
    <2> QED
      BY <2>1, <2>2
  <1>6. StageOK(t)'
    <2>1. job[t].at \notin {"first", "next"}
      BY <1>3 DEF StageOK
    <2>2. ASSUME ClosesOne(t) PROVE ClosesOne(t)'
      <3>1. PICK f \in mOpen : job[t].locked = {f} /\ op[t].drop = <<f>>
        BY <1>3, <2>2 DEF ClosesOne
      <3>2. f \in Files
        BY DEF DirInv, OpenOK
      <3>3. op'[t] = Idle \/ (op'[t].at \in Dropping /\ op'[t].drop = <<f>>)
        <4>1. CASE DropHead(t)
          <5>1. PICK a : a = "drop list"
            OBVIOUS
          <5>2. op' = [op EXCEPT ![t].at = a]
            BY <4>1, <5>1 DEF DropHead, Goto
          <5>3. op' = [op EXCEPT ![t] = With(op[t], a, op[t].look, op[t].got)]
            BY <5>2, Known, GotoWith DEF DirInv
          <5>4. op'[t].at = a /\ op'[t].drop = op[t].drop
            BY <5>3, Known DEF With, DirInv
          <5> QED
            BY <3>1, <5>1, <5>4 DEF Dropping
        <4>2. CASE DropList(t)
          <5>1. Tail(op[t].drop) = <<>>
            BY <3>1
          <5>2. op' = [op EXCEPT ![t] = Idle]
            BY <4>2, <5>1 DEF DropList
          <5> QED
            BY <5>2, Known DEF DirInv
        <4> QED
          BY <4>1, <4>2 DEF Invalidate
      <3> QED
        BY <3>1, <3>3 DEF ClosesOne
    <2> QED
      BY <1>3, <2>1, <2>2 DEF StageOK
  <1>7. StaysRight(t)'
    <2>1. StaysRight(t) /\ JobsOK /\ job'[t] = job[t] /\ stays'[t] \subseteq stays[t]
      BY <1>3 DEF DirInv
    <2>2. op'[t].at # "list fill" /\ \A f \in stays'[t] : store[f] # 0 => store'[f] # 0
      BY <1>1 DEF Dropping
    <2> QED
      BY <1>1, <2>1, <2>2, StaysOn
  <1>8. op'[t].at \in Listing_ => op'[t].look = Dir
    BY <1>1 DEF Dropping, Listing_
  <1>9. \A u \in Threads \ {t} : job'[t].locked \cap job'[u].locked = {}
    BY DEF DirInv, NoneTwice
  <1>10. \A u \in Threads \ {t} : /\ job'[u] = job[u] /\ stays'[u] \subseteq stays[u]
                                  /\ \A g \in stays'[u] : store[g] # 0 => store'[g] # 0
                                  /\ mOpen \cap job[u].locked \subseteq mOpen'
    BY <1>1
  <1> QED
    BY <1>1, <1>4, <1>5, <1>6, <1>7, <1>8, <1>9, <1>10, StepOK

LEMMA ExpireOK ==
  ASSUME DirInv, world.callbacks, Inv', ExpireList(Dir), UNCHANGED <<mOpen, doomed, job, stays>>
  PROVE  DirInv'
  <1>1. Onward({}) /\ UNCHANGED <<store, op>>
    BY ExpireGoes DEF DirInv
  <1>2. JobsOK' /\ OpenOK'
    BY <1>1 DEF DirInv, JobsOK, OpenOK, Onward
  <1>3. \A g \in Files : store'[g] # 0 /\ ~Closing(g)' => (store[g] # 0 /\ ~Closing(g)) \/ Covered(g)'
    BY <1>1 DEF Closing
  <1>4. \A u \in Threads : /\ job'[u] = job[u] /\ stays'[u] \subseteq stays[u]
                           /\ \A g \in stays'[u] : store[g] # 0 => store'[g] # 0
                           /\ mOpen \cap job[u].locked \subseteq mOpen'
    BY <1>1
  <1> QED
    BY <1>1, <1>2, <1>3, <1>4, StepOK

(* Without callbacks there are no jobs, and only operations go on.          *)
LEMMA OperationsOK ==
  ASSUME DirInv, Inv', world' = world, ~world.callbacks, UNCHANGED <<mOpen, doomed, job, stays>>
  PROVE  DirInv'
  <1>1. JobsOK' /\ OpenOK' /\ NoneTwice'
    BY DEF DirInv, JobsOK, OpenOK, NoneTwice
  <1>2. ASSUME NEW t \in Threads PROVE StageOK(t)' /\ StaysRight(t)'
    <2>1. job'[t] = NoJob /\ stays'[t] = {}
      BY NoJobOK DEF DirInv, StaysRight, Reading
    <2> QED
      BY <2>1, NoJobOK DEF StageOK, StaysRight, Unseen, Reading
  <1> QED
    BY <1>1, <1>2 DEF DirInv

LEMMA SameWorld == [Next]_vars => world' = world
  BY DEF Next, vars, IsNegative, ListIsNegative, Change, FailedChange, Operate, Lookup, IsPositive, AskHead,
         AskParentCache, AskParent, FillHead, ListUp, ListIsPositive, AskList, FillList, Invalidate, DropHead,
         DropList, ExpireHead, ExpireList

LEMMA UnchangedOK ==
  ASSUME DirInv, Inv', UNCHANGED dirVars
  PROVE  DirInv'
  <1>1. UNCHANGED vars /\ UNCHANGED <<mOpen, doomed, job, stays>>
    BY DEF dirVars
  <1>2. Onward({}) /\ UNCHANGED <<store, op, world>>
    BY <1>1, StutterGoes DEF vars
  <1>3. CASE world.callbacks
    <2>1. JobsOK' /\ OpenOK'
      BY <1>1, <1>2 DEF DirInv, JobsOK, OpenOK
    <2>2. \A g \in Files : store'[g] # 0 /\ ~Closing(g)' => (store[g] # 0 /\ ~Closing(g)) \/ Covered(g)'
      BY <1>1, <1>2 DEF Closing
    <2>3. \A u \in Threads : /\ job'[u] = job[u] /\ stays'[u] \subseteq stays[u]
                             /\ \A g \in stays'[u] : store[g] # 0 => store'[g] # 0
                             /\ mOpen \cap job[u].locked \subseteq mOpen'
      BY <1>1, <1>2
    <2> QED
      BY <1>2, <1>3, <2>1, <2>2, <2>3, StepOK
  <1>4. CASE ~world.callbacks
    BY <1>1, <1>2, <1>4, OperationsOK
  <1> QED
    BY <1>3, <1>4

LEMMA CallbacksKeep ==
  ASSUME DirInv, world.callbacks, Inv', Callbacks
  PROVE  DirInv'
  <1>1. CASE \E f \in Files : OpenOrCreate(f) \/ CloseOnly(f)
    BY <1>1, OpenOrCreateOK, CloseOnlyOK
  <1>2. CASE \E t \in Threads : \E f \in Files : DeleteFile(t, f) \/ CloseUpload(t, f) \/ CloseFails(t, f)
    BY <1>2, DeleteFileOK, CloseUploadOK, CloseFailsOK
  <1>3. CASE \E t \in Threads : ReleaseFile(t) \/ ReadDirectory(t) \/ SetDelete(t) \/ Show(t) \/ Return(t)
    BY <1>3, ReleaseFileOK, ReadsOK, ShowOK
  <1>4. CASE \E t \in Threads : List(t) \/ ListStep(t)
    BY <1>4, ListCallOK, ListStepOK
  <1>5. CASE \E t \in Threads : DeleteFiles(t) \/ DeleteDir(t) \/ GiveUp(t)
    BY <1>5, DeleteFilesOK, DeleteDirOK, GiveUpOK
  <1>6. CASE ((\E t \in Threads : Invalidate(t)) \/ ExpireList(Dir)) /\ UNCHANGED <<mOpen, doomed, job, stays>>
    BY <1>6, InvalidateOK, ExpireOK
  <1> QED
    BY <1>1, <1>2, <1>3, <1>4, <1>5, <1>6 DEF Callbacks

LEMMA DirStepKeeps == DirInv /\ [DirNext]_dirVars => DirInv'
  <1> SUFFICES ASSUME DirInv, [DirNext]_dirVars PROVE DirInv'
    OBVIOUS
  <1>1. Inv'
    BY DirNextInv DEF DirInv
  <1>2. CASE world.callbacks /\ Callbacks
    BY <1>1, <1>2, CallbacksKeep
  <1>3. CASE ~world.callbacks /\ Next /\ UNCHANGED <<mOpen, doomed, job, stays>>
    BY <1>1, <1>3, SameWorld, OperationsOK
  <1>4. CASE UNCHANGED dirVars
    BY <1>1, <1>4, UnchangedOK
  <1> QED
    BY <1>2, <1>3, <1>4 DEF DirNext

LEMMA DirBegins == DirInit => DirInv
  <1> SUFFICES ASSUME DirInit PROVE DirInv
    OBVIOUS
  <1>1. Inv /\ JobsOK /\ OpenOK
    BY DirInitInv, NoJobOK DEF DirInit, JobsOK, OpenOK
  <1>2. \A t \in Threads : job[t] = NoJob /\ stays[t] = {} /\ op[t] = Idle
    BY DEF DirInit, Init
  <1>3. NoneTwice /\ \A t \in Threads : StageOK(t) /\ StaysRight(t)
    BY <1>2, NoJobOK DEF NoneTwice, StageOK, StaysRight, Unseen, Reading
  <1>4. Listable /\ LooksAtDir
    <2>1. DOMAIN listPositive = {} /\ \A t \in Threads : op[t].at = "idle"
      BY <1>2, IdleAt DEF DirInit, Init
    <2> QED
      BY <2>1 DEF Listable, Covered, LooksAtDir, Listing_
  <1> QED
    BY <1>1, <1>2, <1>3, <1>4 DEF DirInv

LEMMA DirInvImplies == DirInv => DirectoriesTypeOK /\ ShowsWhatStays /\ LeavesNothingBehind
  <1> SUFFICES ASSUME DirInv PROVE DirectoriesTypeOK /\ ShowsWhatStays /\ LeavesNothingBehind
    OBVIOUS
  <1>1. ASSUME NEW t \in Threads
        PROVE  /\ job[t].shown \cup stays[t] \subseteq Files
               /\ job[t].call = "none" => job[t] = NoJob /\ stays[t] = {}
    BY DEF DirInv, JobsOK, Job, StageOK, StaysRight, Reading
  <1>2. DirectoriesTypeOK
    BY <1>1, InvImplies DEF DirectoriesTypeOK, DirInv, OpenOK
  <1>3. ShowsWhatStays
    BY DEF ShowsWhatStays, DirInv, StaysRight
  <1>4. LeavesNothingBehind
    BY DEF LeavesNothingBehind, DirInv, StaysRight
  <1> QED
    BY <1>2, <1>3, <1>4

(* What the callbacks keep to, each step of them (DirInv): the types, one   *)
(* name's lock with one callback, and what each callback still wants listed *)
(* in every listing that is not in doubt.                                   *)
THEOREM DirInvariance == DirSpec => []DirInv
  BY DirBegins, DirStepKeeps, PTL DEF DirSpec

(* The open-file table, the callbacks and the caches have the values the    *)
(* code gives them (DirectoriesTypeOK).                                     *)
THEOREM DirTypeCorrect == DirSpec => []DirectoriesTypeOK
  BY DirInvariance, DirInvImplies, PTL

(* ReadDirectory shows each file that was there from its beginning to its   *)
(* end, also one that moves from the open files to the bucket meanwhile     *)
(* (ShowsWhatStays).                                                        *)
THEOREM ShowsWhatStaysTheorem == DirSpec => []ShowsWhatStays
  BY DirInvariance, DirInvImplies, PTL

(* SetDelete of a directory that comes to its end has deleted each file     *)
(* that was stored in it all the time, though S3's DeleteObjects may spare  *)
(* some and a listing may be a cached one (LeavesNothingBehind).            *)
THEOREM LeavesNothingBehindTheorem == DirSpec => []LeavesNothingBehind
  BY DirInvariance, DirInvImplies, PTL

=============================================================================
