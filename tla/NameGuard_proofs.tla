--------------------------- MODULE NameGuard_proofs ---------------------------
(***************************************************************************)
(* Proofs about NameGuard, for any finite set of threads and any sets of   *)
(* names and addresses.                                                    *)
(***************************************************************************)
EXTENDS NameGuard, FiniteSetTheorems, TLAPS

Sharers(n) == {p \in Threads \X Slots : Shares(p[1], p[2], n)}

(* a stored object counts the shares of its name, two of them for a        *)
(* callback with a double lock                                             *)
CountExact ==
  \A n \in Names : mMap[n] # NULL => mRefCount[mMap[n]] = Cardinality(Sharers(n))

(* two names never share an object                                        *)
OneObjectPerName ==
  \A n, m \in Names : mMap[n] # NULL /\ mMap[n] = mMap[m] => n = m

(* the owner of a stored mutex is the thread inside the name's lock       *)
OwnerHolds ==
  \A n \in Names, t \in Threads :
     mMap[n] # NULL => (mOwner[mMap[n]] = t <=> Holds(t, n))

StoreInv == StoreTracksShares /\ CountExact /\ OneObjectPerName /\ OwnerHolds

(* MutualExclusion speaks of program counters only; what makes it         *)
(* inductive is that both threads reach the lock through one stored       *)
(* object, which is never erased while either has a share of it.  The     *)
(* count is of shares and not of threads: a rename that gives up a double *)
(* lock returns one share and keeps the other.                            *)
IInv == TypeOK /\ StoreInv

------------------------------------------------------------------------------
LEMMA HoldsShares == ASSUME NEW t \in Threads, NEW n \in Names, Holds(t, n)
                     PROVE  Shares(t, "outer", n) \/ Shares(t, "inner", n)
  BY DEF Holds, Shares

LEMMA HoldsStored ==
  ASSUME StoreTracksShares, NEW t \in Threads, NEW n \in Names, Holds(t, n)
  PROVE  mMap[n] # NULL
  <1>1. PICK s \in Slots : Shares(t, s, n)
    BY HoldsShares DEF Slots
  <1> QED
    BY <1>1 DEF StoreTracksShares

(* A non-empty finite set has a positive cardinality.                      *)
LEMMA SharersCount ==
  ASSUME NEW n \in Names
  PROVE  /\ IsFiniteSet(Sharers(n)) /\ Cardinality(Sharers(n)) \in Nat
         /\ (Cardinality(Sharers(n)) = 0 <=> Sharers(n) = {})
  <1>1. IsFiniteSet(Slots)
    <2>1. IsFiniteSet({"outer"})
      BY FS_Singleton
    <2>2. Slots = {"outer"} \cup {"inner"}
      BY DEF Slots
    <2> QED
      BY <2>1, <2>2, FS_AddElement
  <1>2. IsFiniteSet(Sharers(n))
    <2>1. Sharers(n) \in SUBSET (Threads \X Slots)
      BY DEF Sharers
    <2> QED
      BY <1>1, <2>1, ThreadsFinite, FS_Product, FS_Subset
  <1> QED
    BY <1>2, FS_CardinalityType, FS_EmptySet

(* One thread gains a share of n and nobody enters or leaves a lock.       *)
LEMMA ConstructKeeps ==
  ASSUME TypeOK, StoreInv, NEW t \in Threads, NEW s \in Slots, NEW n \in Names,
         Find(t, s, n) \/ Emplace(t, s, n), \A m \in Names : ~ Shares(t, s, m),
         \A u \in Threads, r \in Slots, m \in Names :
            Shares(u, r, m)' <=> Shares(u, r, m) \/ (u = t /\ r = s /\ m = n),
         \A u \in Threads, m \in Names : Holds(u, m)' <=> Holds(u, m)
  PROVE  StoreInv'
  <1>0. /\ mMap \in [Names -> Objects \cup {NULL}]
        /\ mRefCount \in [Objects -> Nat]
        /\ mOwner \in [Objects -> Threads \cup {NULL}]
        /\ mV \in [Threads -> [Slots -> Objects \cup {NULL}]]
        /\ NULL \notin Threads /\ NULL \notin Objects
    BY NullIsNothing DEF TypeOK
  <1>1. \A m \in Names : mMap[m] # NULL => mMap'[m] = mMap[m]
    BY <1>0 DEF Find, Emplace
  <1>2. mMap'[n] # NULL /\ mMap'[n] \in Objects
    BY <1>0 DEF Find, Emplace
  <1>3. \A m \in Names : m # n => mMap'[m] = mMap[m]
    BY <1>0 DEF Find, Emplace
  <1>4. StoreTracksShares'
    <2>1. mV' = [mV EXCEPT ![t][s] = mMap'[n]]
      BY <1>0 DEF Find, Emplace
    <2> QED
      BY <1>0, <1>1, <1>2, <1>3, <2>1 DEF StoreInv, StoreTracksShares
  <1>5. OneObjectPerName'
    BY <1>0 DEF StoreInv, OneObjectPerName, Find, Emplace
  <1>6. CountExact'
    <2>1. Sharers(n)' = Sharers(n) \cup {<<t, s>>} /\ <<t, s>> \notin Sharers(n)
      BY DEF Sharers
    <2>2. Cardinality(Sharers(n)') = Cardinality(Sharers(n)) + 1
      BY <2>1, SharersCount, FS_AddElement
    <2>3. \A m \in Names : m # n => Sharers(m)' = Sharers(m)
      BY DEF Sharers
    <2>4. mRefCount'[mMap'[n]] = Cardinality(Sharers(n)) + 1
      <3>1. CASE Find(t, s, n)
        BY <3>1, <1>0 DEF Find, StoreInv, CountExact
      <3>2. CASE Emplace(t, s, n)
        <4>1. mRefCount'[mMap'[n]] = 1
          BY <3>2, <1>0 DEF Emplace
        <4>2. Sharers(n) = {}
          BY <3>2, <1>0 DEF Emplace, StoreInv, StoreTracksShares, Sharers
        <4> QED
          BY <4>1, <4>2, FS_EmptySet
      <3> QED
        BY <3>1, <3>2
    <2>5. \A m \in Names : m # n /\ mMap[m] # NULL
             => mRefCount'[mMap[m]] = mRefCount[mMap[m]]
      BY <1>0 DEF Find, Emplace, StoreInv, OneObjectPerName
    <2>6. \A m \in Names : m # n /\ mMap'[m] # NULL
             => mRefCount'[mMap'[m]] = Cardinality(Sharers(m)')
      BY <1>3, <2>3, <2>5 DEF StoreInv, CountExact
    <2> QED
      BY <2>2, <2>4, <2>6 DEF CountExact
  <1>7. OwnerHolds'
    <2>1. \A m \in Names : mMap[m] # NULL => mOwner'[mMap[m]] = mOwner[mMap[m]]
      BY <1>0 DEF Find, Emplace
    <2>2. mMap[n] = NULL => mOwner'[mMap'[n]] = NULL
      BY <1>0 DEF Find, Emplace
    <2>3. mMap[n] = NULL => \A u \in Threads : ~ Holds(u, n)
      BY HoldsStored DEF StoreInv
    <2> QED
      BY <1>0, <1>1, <1>3, <2>1, <2>2, <2>3 DEF StoreInv, OwnerHolds
  <1> QED
    BY <1>4, <1>5, <1>6, <1>7 DEF StoreInv

(* One thread enters the lock of n, which nobody was inside.               *)
LEMMA LockKeeps ==
  ASSUME TypeOK, StoreInv, NEW t \in Threads, NEW n \in Names,
         NEW s \in Slots, UNCHANGED <<mMap, mRefCount, mV>>, Shares(t, s, n),
         mOwner[mV[t][s]] = NULL, mOwner' = [mOwner EXCEPT ![mV[t][s]] = t],
         \A u \in Threads, r \in Slots, m \in Names : Shares(u, r, m)' <=> Shares(u, r, m),
         \A u \in Threads, m \in Names :
            Holds(u, m)' <=> Holds(u, m) \/ (u = t /\ m = n)
  PROVE  StoreInv'
  <1>0. /\ mMap \in [Names -> Objects \cup {NULL}]
        /\ mOwner \in [Objects -> Threads \cup {NULL}]
        /\ NULL \notin Threads
    BY NullIsNothing DEF TypeOK
  <1>1. mV[t][s] = mMap[n] /\ mMap[n] # NULL
    BY DEF StoreInv, StoreTracksShares
  <1>2. StoreTracksShares' /\ OneObjectPerName'
    BY DEF StoreInv, StoreTracksShares, OneObjectPerName
  <1>3. CountExact'
    <2>1. \A m \in Names : Sharers(m)' = Sharers(m)
      BY DEF Sharers
    <2> QED
      BY <2>1 DEF StoreInv, CountExact
  <1>4. OwnerHolds'
    BY <1>0, <1>1 DEF StoreInv, OwnerHolds, OneObjectPerName
  <1> QED
    BY <1>2, <1>3, <1>4 DEF StoreInv

(* One thread leaves the lock of n, which it was inside.                   *)
LEMMA UnlockKeeps ==
  ASSUME TypeOK, StoreInv, NEW t \in Threads, NEW n \in Names,
         NEW s \in Slots, UNCHANGED <<mMap, mRefCount, mV>>, Shares(t, s, n), Holds(t, n),
         mOwner' = [mOwner EXCEPT ![mV[t][s]] = NULL],
         \A u \in Threads, r \in Slots, m \in Names : Shares(u, r, m)' <=> Shares(u, r, m),
         \A u \in Threads, m \in Names :
            Holds(u, m)' <=> Holds(u, m) /\ ~ (u = t /\ m = n)
  PROVE  StoreInv'
  <1>0. /\ mMap \in [Names -> Objects \cup {NULL}]
        /\ mOwner \in [Objects -> Threads \cup {NULL}]
        /\ NULL \notin Threads
    BY NullIsNothing DEF TypeOK
  <1>1. mV[t][s] = mMap[n] /\ mMap[n] # NULL
    BY HoldsShares DEF StoreInv, StoreTracksShares
  <1>2. StoreTracksShares' /\ OneObjectPerName'
    BY DEF StoreInv, StoreTracksShares, OneObjectPerName
  <1>3. CountExact'
    <2>1. \A m \in Names : Sharers(m)' = Sharers(m)
      BY DEF Sharers
    <2> QED
      BY <2>1 DEF StoreInv, CountExact
  <1>4. OwnerHolds'
    BY <1>0, <1>1 DEF StoreInv, OwnerHolds, OneObjectPerName
  <1> QED
    BY <1>2, <1>3, <1>4 DEF StoreInv

(* One thread gives a share of n back.                                     *)
LEMMA DestroyKeeps ==
  ASSUME TypeOK, StoreInv, NEW t \in Threads, NEW n \in Names,
         NEW s \in Slots,
         DropReference(n), mV' = [mV EXCEPT ![t][s] = NULL], UNCHANGED mOwner,
         Shares(t, s, n),
         \A u \in Threads, r \in Slots, m \in Names :
            Shares(u, r, m)' <=> Shares(u, r, m) /\ ~ (u = t /\ r = s /\ m = n),
         \A u \in Threads, m \in Names : Holds(u, m)' <=> Holds(u, m)
  PROVE  StoreInv' /\ mRefCount' \in [Objects -> Nat]
  <1>0. /\ mMap \in [Names -> Objects \cup {NULL}]
        /\ mRefCount \in [Objects -> Nat]
        /\ mV \in [Threads -> [Slots -> Objects \cup {NULL}]]
        /\ mV[t][s] = mMap[n] /\ mMap[n] # NULL /\ mMap[n] \in Objects
    BY DEF TypeOK, StoreInv, StoreTracksShares
  <1>1. Sharers(n)' = Sharers(n) \ {<<t, s>>} /\ <<t, s>> \in Sharers(n)
    BY DEF Sharers
  <1>2. \A m \in Names : m # n => Sharers(m)' = Sharers(m)
    BY DEF Sharers
  <1>3. /\ Cardinality(Sharers(n)) \in Nat /\ Cardinality(Sharers(n)) # 0
        /\ Cardinality(Sharers(n)') = Cardinality(Sharers(n)) - 1
    BY <1>1, SharersCount, FS_RemoveElement
  <1>4. mRefCount[mMap[n]] = Cardinality(Sharers(n))
    BY <1>0 DEF StoreInv, CountExact
  <1>5. mRefCount'[mMap[n]] = Cardinality(Sharers(n)')
    BY <1>0, <1>3, <1>4 DEF DropReference
  <1>6. mMap'[n] = NULL <=> Sharers(n)' = {}
    <2>1. Sharers(n)' = {} <=> Cardinality(Sharers(n)') = 0
      BY <1>1, SharersCount, FS_RemoveElement, FS_EmptySet
    <2> QED
      BY <1>0, <1>3, <1>4, <2>1 DEF DropReference
  <1>7. \A m \in Names : m # n => mMap'[m] = mMap[m]
    BY <1>0 DEF DropReference
  <1>8. mMap'[n] # NULL => mMap'[n] = mMap[n]
    BY <1>0 DEF DropReference
  <1>9. StoreTracksShares'
    <2>1. ASSUME NEW u \in Threads, NEW r \in Slots, NEW m \in Names, Shares(u, r, m)'
          PROVE  mV'[u][r] # NULL /\ mV'[u][r] = mMap'[m]
      <3>1. Shares(u, r, m) /\ ~ (u = t /\ r = s /\ m = n)
        BY <2>1
      <3>2. ~ (u = t /\ r = s)
        BY <3>1 DEF Shares
      <3>3. m = n => mMap'[m] = mMap[m]
        <4>1. m = n => <<u, r>> \in Sharers(n)'
          BY <2>1 DEF Sharers
        <4>2. m = n => mMap'[n] # NULL
          BY <4>1, <1>6
        <4> QED
          BY <4>2, <1>8
      <3>4. mV'[u][r] = mV[u][r]
        BY <1>0, <3>2
      <3> QED
        BY <3>1, <3>3, <3>4, <1>7 DEF StoreInv, StoreTracksShares
    <2>2. ASSUME NEW u \in Threads, NEW r \in Slots, mV'[u][r] # NULL
          PROVE  \E m \in Names : Shares(u, r, m)'
      <3>1. ~ (u = t /\ r = s) /\ mV[u][r] # NULL
        BY <1>0, <2>2
      <3>2. PICK m \in Names : Shares(u, r, m)
        BY <3>1 DEF StoreInv, StoreTracksShares
      <3> QED
        BY <3>1, <3>2
    <2>3. \A m \in Names : mMap'[m] # NULL
             => \E u \in Threads, r \in Slots : Shares(u, r, m)'
      <3> SUFFICES ASSUME NEW m \in Names, mMap'[m] # NULL
                   PROVE  \E u \in Threads, r \in Slots : Shares(u, r, m)'
        OBVIOUS
      <3>1. CASE m = n
        BY <3>1, <1>6 DEF Sharers
      <3>2. CASE m # n
        BY <3>2, <1>7 DEF StoreInv, StoreTracksShares
      <3> QED
        BY <3>1, <3>2
    <2> QED
      BY <2>1, <2>2, <2>3 DEF StoreTracksShares
  <1>10. CountExact'
    <2>1. \A m \in Names : m # n /\ mMap[m] # NULL
             => mRefCount'[mMap[m]] = mRefCount[mMap[m]]
      BY <1>0 DEF DropReference, StoreInv, OneObjectPerName
    <2> QED
      BY <1>2, <1>5, <1>7, <1>8, <2>1 DEF StoreInv, CountExact
  <1>11. OneObjectPerName' /\ OwnerHolds'
    BY <1>7, <1>8 DEF StoreInv, OneObjectPerName, OwnerHolds
  <1>12. mRefCount' \in [Objects -> Nat]
    <2>1. mRefCount[mMap[n]] - 1 \in Nat
      BY <1>3, <1>4
    <2> QED
      BY <1>0, <2>1 DEF DropReference
  <1> QED
    BY <1>9, <1>10, <1>11, <1>12 DEF StoreInv

------------------------------------------------------------------------------
LEMMA InitIInv == Init => IInv
  <1> SUFFICES ASSUME Init PROVE IInv
    OBVIOUS
  <1>1. TypeOK
    BY NullIsNothing DEF Init, TypeOK, Locations
  <1>2. StoreInv
    BY NullIsNothing DEF Init, StoreInv, StoreTracksShares, CountExact, OneObjectPerName,
                         OwnerHolds, Shares, Holds
  <1> QED
    BY <1>1, <1>2 DEF IInv

(* Admission moves nothing but the caller's program counter and names.     *)
LEMMA EnterKeeps ==
  ASSUME IInv, NEW t \in Threads, NEW n \in Names,
         NEW mode \in {"free", "shared", "exclusive"}, NEW m \in Names,
         Enter(t, n, mode) \/ EnterRename(t, n, m)
  PROVE  IInv'
  <1>1. TypeOK'
    <2>1. CASE Enter(t, n, mode)
      BY <2>1, NullIsNothing DEF IInv, TypeOK, Locations, Enter
    <2>2. CASE EnterRename(t, n, m)
      BY <2>2, NullIsNothing DEF IInv, TypeOK, Locations, EnterRename
    <2> QED
      BY <2>1, <2>2
  <1>2. /\ \A u \in Threads, r \in Slots, k \in Names : Shares(u, r, k)' <=> Shares(u, r, k)
        /\ \A u \in Threads, k \in Names : Holds(u, k)' <=> Holds(u, k)
    BY DEF IInv, TypeOK, Enter, EnterRename, Shares, Holds
  <1>3. \A k \in Names : Sharers(k)' = Sharers(k)
    BY <1>2 DEF Sharers
  <1>4. UNCHANGED <<mMap, mRefCount, mOwner, mV>>
    BY DEF Enter, EnterRename
  <1>5. StoreTracksShares' /\ CountExact' /\ OneObjectPerName' /\ OwnerHolds'
    BY <1>2, <1>3, <1>4 DEF IInv, StoreInv, StoreTracksShares, CountExact, OneObjectPerName, OwnerHolds
  <1> QED
    BY <1>1, <1>5 DEF IInv, StoreInv

LEMMA FindOrEmplaceType ==
  ASSUME TypeOK, NEW t \in Threads, NEW s \in Slots, NEW n \in Names,
         Find(t, s, n) \/ Emplace(t, s, n)
  PROVE  /\ mMap' \in [Names -> Objects \cup {NULL}]
         /\ mRefCount' \in [Objects -> Nat]
         /\ mOwner' \in [Objects -> Threads \cup {NULL}]
         /\ mV' \in [Threads -> [Slots -> Objects \cup {NULL}]]
  <1>0. /\ mMap \in [Names -> Objects \cup {NULL}]
        /\ mRefCount \in [Objects -> Nat]
        /\ mOwner \in [Objects -> Threads \cup {NULL}]
        /\ mV \in [Threads -> [Slots -> Objects \cup {NULL}]]
    BY DEF TypeOK
  <1>1. CASE Find(t, s, n)
    <2>1. mMap[n] \in Objects
      BY <1>0, <1>1 DEF Find
    <2> QED
      BY <1>0, <1>1, <2>1 DEF Find
  <1>2. CASE Emplace(t, s, n)
    BY <1>0, <1>2 DEF Emplace
  <1> QED
    BY <1>1, <1>2

(* Before its second lock a rename finds the mutex free only when the new  *)
(* name is another one, and finds itself inside only when it is the same.  *)
LEMMA FreeOnceLocked ==
  ASSUME IInv, NEW t \in Threads, pc[t] = "lock2", mOwner[mV[t]["inner"]] = NULL
  PROVE  dst[t] # src[t]
  <1>1. /\ src[t] \in Names /\ dst[t] \in Names
    BY NullIsNothing DEF IInv, TypeOK
  <1>2. Shares(t, "inner", dst[t]) /\ Holds(t, src[t])
    BY DEF Shares, Holds
  <1>3. mV[t]["inner"] = mMap[dst[t]] /\ mMap[dst[t]] # NULL
    BY <1>1, <1>2 DEF IInv, StoreInv, StoreTracksShares, Slots
  <1> QED
    BY <1>1, <1>2, <1>3, NullIsNothing DEF IInv, StoreInv, OwnerHolds

LEMMA OwnedIsOuter ==
  ASSUME IInv, NEW t \in Threads, pc[t] = "lock2", mOwner[mV[t]["inner"]] = t
  PROVE  dst[t] = src[t]
  <1>1. /\ src[t] \in Names /\ dst[t] \in Names
    BY NullIsNothing DEF IInv, TypeOK
  <1>2. Shares(t, "inner", dst[t])
    BY DEF Shares
  <1>3. mV[t]["inner"] = mMap[dst[t]] /\ mMap[dst[t]] # NULL
    BY <1>1, <1>2 DEF IInv, StoreInv, StoreTracksShares, Slots
  <1>4. Holds(t, dst[t])
    BY <1>1, <1>3 DEF IInv, StoreInv, OwnerHolds
  <1> QED
    BY <1>4 DEF Holds

(* Every step of a callback keeps the invariant.                           *)
LEMMA RelayKeeps == ASSUME IInv, NEW t \in Threads, Relay(t) PROVE IInv'
  <1>0. TypeOK /\ StoreInv
    BY DEF IInv
  <1> USE NullIsNothing DEF Slots
  <1>1. CASE Construct(t, "outer", src[t], "ctor1", "lock1")
    <2> DEFINE n == src[t]
    <2>1. n \in Names
      BY <1>0, <1>1 DEF TypeOK, Construct
    <2>2. TypeOK'
      BY <1>0, <1>1, <2>1, FindOrEmplaceType DEF TypeOK, Construct, call, Locations
    <2>3. \A m \in Names : ~ Shares(t, "outer", m)
      BY <1>0, <1>1 DEF TypeOK, Construct, Shares
    <2>4. \A u \in Threads, r \in Slots, m \in Names :
             Shares(u, r, m)' <=> Shares(u, r, m) \/ (u = t /\ r = "outer" /\ m = n)
      BY <1>0, <1>1, <2>1 DEF TypeOK, Construct, Shares, call
    <2>5. \A u \in Threads, m \in Names : Holds(u, m)' <=> Holds(u, m)
      BY <1>0, <1>1 DEF TypeOK, Construct, Holds, call
    <2>6. Find(t, "outer", n) \/ Emplace(t, "outer", n)
      BY <1>1 DEF Construct
    <2> HIDE DEF n
    <2> QED
      BY <1>0, <2>1, <2>2, <2>3, <2>4, <2>5, <2>6, ConstructKeeps DEF IInv
  <1>2. CASE Lock(t, "outer", "lock1", IF dst[t] = NULL THEN "run" ELSE "ctor2")
    <2> DEFINE n == src[t]
    <2>1. n \in Names
      BY <1>0, <1>2 DEF TypeOK, Lock
    <2>2. Shares(t, "outer", n)
      BY <1>0, <1>2 DEF TypeOK, Lock, Shares
    <2>3. TypeOK'
      BY <1>0, <1>2, <2>1 DEF TypeOK, Lock, call, store, Locations
    <2>4. \A u \in Threads, r \in Slots, m \in Names :
             Shares(u, r, m)' <=> Shares(u, r, m)
      BY <1>0, <1>2 DEF TypeOK, Lock, Shares, call
    <2>5. \A u \in Threads, m \in Names : Holds(u, m)' <=> Holds(u, m) \/ (u = t /\ m = n)
      BY <1>0, <1>2, <2>1 DEF TypeOK, Lock, Holds, call
    <2>6. /\ UNCHANGED <<mMap, mRefCount, mV>>
          /\ mOwner[mV[t]["outer"]] = NULL /\ mOwner' = [mOwner EXCEPT ![mV[t]["outer"]] = t]
      BY <1>2 DEF Lock, store
    <2> HIDE DEF n
    <2> QED
      BY <1>0, <2>1, <2>2, <2>3, <2>4, <2>5, <2>6, LockKeeps DEF IInv
  <1>3. CASE Construct(t, "inner", dst[t], "ctor2", "lock2")
    <2> DEFINE n == dst[t]
    <2>1. n \in Names
      BY <1>0, <1>3 DEF TypeOK, Construct
    <2>2. TypeOK'
      BY <1>0, <1>3, <2>1, FindOrEmplaceType DEF TypeOK, Construct, call, Locations
    <2>3. \A m \in Names : ~ Shares(t, "inner", m)
      BY <1>0, <1>3, <2>1 DEF TypeOK, Construct, Shares
    <2>4. \A u \in Threads, r \in Slots, m \in Names :
             Shares(u, r, m)' <=> Shares(u, r, m) \/ (u = t /\ r = "inner" /\ m = n)
      BY <1>0, <1>3, <2>1 DEF TypeOK, Construct, Shares, call
    <2>5. \A u \in Threads, m \in Names : Holds(u, m)' <=> Holds(u, m)
      BY <1>0, <1>3 DEF TypeOK, Construct, Holds, call
    <2>6. Find(t, "inner", n) \/ Emplace(t, "inner", n)
      BY <1>3 DEF Construct
    <2> HIDE DEF n
    <2> QED
      BY <1>0, <2>1, <2>2, <2>3, <2>4, <2>5, <2>6, ConstructKeeps DEF IInv
  <1>4. CASE Lock(t, "inner", "lock2", "run")
    <2> DEFINE n == dst[t]
    <2>1. n \in Names /\ n # src[t]
      <3>1. n \in Names
        BY <1>0, <1>4 DEF TypeOK, Lock
      <3> QED
        BY <1>4, <3>1, FreeOnceLocked DEF Lock
    <2>2. Shares(t, "inner", n)
      BY <1>0, <1>4 DEF TypeOK, Lock, Shares
    <2>3. TypeOK'
      BY <1>0, <1>4, <2>1 DEF TypeOK, Lock, call, store, Locations
    <2>4. \A u \in Threads, r \in Slots, m \in Names :
             Shares(u, r, m)' <=> Shares(u, r, m)
      BY <1>0, <1>4 DEF TypeOK, Lock, Shares, call
    <2>5. \A u \in Threads, m \in Names : Holds(u, m)' <=> Holds(u, m) \/ (u = t /\ m = n)
      BY <1>0, <1>4, <2>1 DEF TypeOK, Lock, Holds, call
    <2>6. /\ UNCHANGED <<mMap, mRefCount, mV>>
          /\ mOwner[mV[t]["inner"]] = NULL /\ mOwner' = [mOwner EXCEPT ![mV[t]["inner"]] = t]
      BY <1>4 DEF Lock, store
    <2>7. StoreInv'
      <3> HIDE DEF n
      <3>1. n \in Names /\ "inner" \in Slots
        BY <2>1
      <3> QED
        BY <1>0, <2>2, <2>4, <2>5, <2>6, <3>1, LockKeeps
    <2> QED
      BY <2>3, <2>7 DEF IInv
  <1>5. CASE Handle(t)
    <2>1. TypeOK'
      BY <1>0, <1>5 DEF TypeOK, Handle, call, store, Locations
    <2>2. /\ \A u \in Threads, r \in Slots, k \in Names : Shares(u, r, k)' <=> Shares(u, r, k)
          /\ \A u \in Threads, k \in Names : Holds(u, k)' <=> Holds(u, k)
      BY <1>0, <1>5 DEF TypeOK, Handle, call, Shares, Holds
    <2>3. \A k \in Names : Sharers(k)' = Sharers(k)
      BY <2>2 DEF Sharers
    <2>4. UNCHANGED <<mMap, mRefCount, mOwner, mV>>
      BY <1>5 DEF Handle, store
    <2>5. StoreTracksShares' /\ CountExact' /\ OneObjectPerName' /\ OwnerHolds'
      BY <1>0, <2>2, <2>3, <2>4 DEF StoreInv, StoreTracksShares, CountExact, OneObjectPerName, OwnerHolds
    <2> QED
      BY <2>1, <2>5 DEF IInv, StoreInv
  <1>6. CASE Unlock(t, "inner", "unlock2", "dtor2")
    <2> DEFINE n == dst[t]
    <2>1. n \in Names /\ n # src[t]
      BY <1>0, <1>6 DEF TypeOK, Unlock
    <2>2. Shares(t, "inner", n) /\ Holds(t, n)
      BY <1>0, <1>6 DEF TypeOK, Unlock, Shares, Holds
    <2>3. TypeOK'
      BY <1>0, <1>6, <2>1 DEF TypeOK, Unlock, call, store, Locations
    <2>4. \A u \in Threads, r \in Slots, m \in Names :
             Shares(u, r, m)' <=> Shares(u, r, m)
      BY <1>0, <1>6 DEF TypeOK, Unlock, Shares, call
    <2>5. \A u \in Threads, m \in Names : Holds(u, m)' <=> Holds(u, m) /\ ~ (u = t /\ m = n)
      BY <1>0, <1>6, <2>1 DEF TypeOK, Unlock, Holds, call
    <2>6. /\ UNCHANGED <<mMap, mRefCount, mV>>
          /\ mOwner' = [mOwner EXCEPT ![mV[t]["inner"]] = NULL]
      BY <1>6 DEF Unlock, store
    <2> HIDE DEF n
    <2> QED
      BY <1>0, <2>1, <2>2, <2>3, <2>4, <2>5, <2>6, UnlockKeeps DEF IInv
  <1>7. CASE Destroy(t, "inner", dst[t], "dtor2", "unlock1") /\ UNCHANGED call
    <2> DEFINE n == dst[t]
    <2>1. n \in Names
      BY <1>0, <1>7 DEF TypeOK, Destroy
    <2>2. Shares(t, "inner", n)
      BY <1>0, <1>7, <2>1 DEF TypeOK, Destroy, Shares, Holds
    <2>3. \A u \in Threads, r \in Slots, m \in Names :
             Shares(u, r, m)' <=> Shares(u, r, m) /\ ~ (u = t /\ r = "inner" /\ m = n)
      BY <1>0, <1>7, <2>1 DEF TypeOK, Destroy, Shares, call
    <2>4. \A u \in Threads, m \in Names : Holds(u, m)' <=> Holds(u, m)
      BY <1>0, <1>7, <2>1 DEF TypeOK, Destroy, Holds, call
    <2>5. DropReference(n) /\ mV' = [mV EXCEPT ![t]["inner"] = NULL] /\ UNCHANGED mOwner
      BY <1>7 DEF Destroy
    <2>6. StoreInv' /\ mRefCount' \in [Objects -> Nat]
      <3> HIDE DEF n
      <3> QED
        BY <1>0, <2>1, <2>2, <2>3, <2>4, <2>5, DestroyKeeps
    <2>7. TypeOK'
      BY <1>0, <1>7, <2>1, <2>6 DEF TypeOK, Destroy, DropReference, call, Locations
    <2> QED
      BY <2>6, <2>7 DEF IInv
  <1>8. CASE Unlock(t, "outer", "unlock1", "dtor1")
    <2> DEFINE n == src[t]
    <2>1. n \in Names
      BY <1>0, <1>8 DEF TypeOK, Unlock
    <2>2. Shares(t, "outer", n) /\ Holds(t, n)
      BY <1>0, <1>8 DEF TypeOK, Unlock, Shares, Holds
    <2>3. TypeOK'
      BY <1>0, <1>8, <2>1 DEF TypeOK, Unlock, call, store, Locations
    <2>4. \A u \in Threads, r \in Slots, m \in Names :
             Shares(u, r, m)' <=> Shares(u, r, m)
      BY <1>0, <1>8 DEF TypeOK, Unlock, Shares, call
    <2>5. \A u \in Threads, m \in Names : Holds(u, m)' <=> Holds(u, m) /\ ~ (u = t /\ m = n)
      BY <1>0, <1>8, <2>1 DEF TypeOK, Unlock, Holds, call
    <2>6. /\ UNCHANGED <<mMap, mRefCount, mV>>
          /\ mOwner' = [mOwner EXCEPT ![mV[t]["outer"]] = NULL]
      BY <1>8 DEF Unlock, store
    <2> HIDE DEF n
    <2> QED
      BY <1>0, <2>1, <2>2, <2>3, <2>4, <2>5, <2>6, UnlockKeeps DEF IInv
  <1>9. CASE Leave(t)
    <2> DEFINE n == src[t]
    <2>0. Destroy(t, "outer", n, "dtor1", "idle")
      BY <1>9 DEF Leave
    <2>1. n \in Names
      BY <1>0, <2>0 DEF TypeOK, Destroy
    <2>2. Shares(t, "outer", n)
      BY <1>0, <2>0, <2>1 DEF TypeOK, Destroy, Shares, Holds
    <2>3. \A u \in Threads, r \in Slots, m \in Names :
             Shares(u, r, m)' <=> Shares(u, r, m) /\ ~ (u = t /\ r = "outer" /\ m = n)
      BY <1>0, <1>9, <2>1 DEF TypeOK, Leave, Destroy, Shares
    <2>4. \A u \in Threads, m \in Names : Holds(u, m)' <=> Holds(u, m)
      BY <1>0, <1>9, <2>1 DEF TypeOK, Leave, Destroy, Holds
    <2>5. DropReference(n) /\ mV' = [mV EXCEPT ![t]["outer"] = NULL] /\ UNCHANGED mOwner
      BY <2>0 DEF Destroy
    <2>6. StoreInv' /\ mRefCount' \in [Objects -> Nat]
      <3> HIDE DEF n
      <3> QED
        BY <1>0, <2>1, <2>2, <2>3, <2>4, <2>5, DestroyKeeps
    <2>7. TypeOK'
      BY <1>0, <1>9, <2>1, <2>6 DEF TypeOK, Leave, Destroy, DropReference, Locations
    <2> QED
      BY <2>6, <2>7 DEF IInv
  <1>10. CASE LockAgain(t)
    <2>0. src[t] \in Names /\ dst[t] \in Names /\ pc[t] = "lock2"
      BY <1>0, <1>10 DEF TypeOK, LockAgain
    <2>1. dst[t] = src[t]
      BY <1>10, <2>0, OwnedIsOuter DEF LockAgain
    <2>2. PICK next \in {"stuck", "dtor2"} : pc' = [pc EXCEPT ![t] = next]
      BY <1>10 DEF LockAgain
    <2>3. UNCHANGED <<mMap, mRefCount, mOwner, mV, src, dst, access>>
      BY <1>10 DEF LockAgain, store, call
    <2>4. TypeOK'
      BY <1>0, <2>0, <2>1, <2>2, <2>3 DEF TypeOK, Locations
    <2>5. /\ \A u \in Threads, r \in Slots, k \in Names : Shares(u, r, k)' <=> Shares(u, r, k)
          /\ \A u \in Threads, k \in Names : Holds(u, k)' <=> Holds(u, k)
      BY <1>0, <2>0, <2>2, <2>3 DEF TypeOK, Shares, Holds
    <2>6. \A k \in Names : Sharers(k)' = Sharers(k)
      BY <2>5 DEF Sharers
    <2>7. StoreTracksShares' /\ CountExact' /\ OneObjectPerName' /\ OwnerHolds'
      BY <1>0, <2>3, <2>5, <2>6 DEF StoreInv, StoreTracksShares, CountExact, OneObjectPerName, OwnerHolds
    <2> QED
      BY <2>4, <2>7 DEF IInv, StoreInv
  <1> QED
    BY <1>1, <1>2, <1>3, <1>4, <1>5, <1>6, <1>7, <1>8, <1>9, <1>10 DEF Relay

LEMMA NextKeeps == IInv /\ [Next]_vars => IInv'
  <1> SUFFICES ASSUME IInv, [Next]_vars PROVE IInv'
    OBVIOUS
  <1>1. ASSUME NEW t \in Threads, NEW n \in Names,
               NEW mode \in {"free", "shared", "exclusive"}, Enter(t, n, mode)
        PROVE  IInv'
    BY <1>1, EnterKeeps
  <1>2. ASSUME NEW t \in Threads, NEW n \in Names, NEW m \in Names, EnterRename(t, n, m)
        PROVE  IInv'
    BY <1>2, EnterKeeps
  <1>3. ASSUME NEW t \in Threads, Relay(t) PROVE IInv'
    BY <1>3, RelayKeeps
  <1>4. CASE UNCHANGED vars
    <2>1. \A k \in Names : Sharers(k)' = Sharers(k)
      BY <1>4 DEF Sharers, Shares, vars
    <2> QED
      BY <1>4, <2>1 DEF IInv, TypeOK, StoreInv, StoreTracksShares, CountExact, OneObjectPerName,
                        OwnerHolds, Shares, Holds, vars
  <1> QED
    BY <1>1, <1>2, <1>3, <1>4 DEF Next

(* IInv holds at the start and every step of a callback keeps it.          *)
THEOREM Invariance == Spec => []IInv
  BY InitIInv, NextKeeps, PTL DEF Spec

(* The state has its type: in particular no reference count goes below 0.  *)
THEOREM TypeCorrect == Spec => []TypeOK
  <1>1. IInv => TypeOK
    BY DEF IInv
  <1> QED
    BY <1>1, Invariance, PTL

LEMMA IInvExcludes == IInv => MutualExclusion
  <1> SUFFICES ASSUME IInv, NEW t \in Threads, NEW u \in Threads, NEW n \in Names,
                      Holds(t, n), Holds(u, n)
               PROVE  t = u
    BY DEF MutualExclusion
  <1>1. mMap[n] # NULL
    BY HoldsStored DEF IInv, StoreInv
  <1> QED
    BY <1>1 DEF IInv, StoreInv, OwnerHolds

(* No two callbacks are ever inside the lock of one name, however often    *)
(* its object is erased and made again.                                    *)
THEOREM Exclusion == Spec => []MutualExclusion
  BY Invariance, IInvExcludes, PTL

(* A callback's share always points at the stored object of its name.      *)
THEOREM NoDanglingShare == Spec => []StoreTracksShares
  <1>1. IInv => StoreTracksShares
    BY DEF IInv, StoreInv
  <1> QED
    BY <1>1, Invariance, PTL

------------------------------------------------------------------------------
LockSet == {p \in Threads \X Names : Holds(p[1], p[2])}

(* A step that gives t the lock of n acquires it in NameLocks.             *)
LEMMA AcquireMaps ==
  ASSUME MutualExclusion', NEW t \in Threads, NEW n \in Names, ~ Holds(t, n),
         \A u \in Threads, m \in Names :
            Holds(u, m)' <=> Holds(u, m) \/ (u = t /\ m = n)
  PROVE  Locks!Acquire(t, n)
  <1>1. \A u \in Threads : ~ Holds(u, n)
    BY DEF MutualExclusion
  <1>2. LockSet' = LockSet \cup {<<t, n>>}
    BY DEF LockSet
  <1> QED
    BY <1>1, <1>2 DEF Locks!Acquire, LockSet

LEMMA ReleaseMaps ==
  ASSUME NEW t \in Threads, NEW n \in Names, Holds(t, n),
         \A u \in Threads, m \in Names :
            Holds(u, m)' <=> Holds(u, m) /\ ~ (u = t /\ m = n)
  PROVE  Locks!Release(t, n)
  <1>1. LockSet' = LockSet \ {<<t, n>>}
    BY DEF LockSet
  <1> QED
    BY <1>1 DEF Locks!Release, LockSet

LEMMA StutterMaps ==
  ASSUME \A u \in Threads, m \in Names : Holds(u, m)' <=> Holds(u, m)
  PROVE  UNCHANGED LockSet
  BY DEF LockSet

(* Only Lock and Unlock steps move the set of held locks.                  *)
LEMMA StepMaps == IInv /\ MutualExclusion' /\ [Next]_vars => [Locks!Next]_(LockSet)
  <1> SUFFICES ASSUME IInv, MutualExclusion', [Next]_vars PROVE [Locks!Next]_(LockSet)
    OBVIOUS
  <1> USE NullIsNothing
  <1>0. TypeOK /\ MutualExclusion'
    BY DEF IInv
  <1>1. ASSUME NEW t \in Threads, NEW n \in Names,
               NEW mode \in {"free", "shared", "exclusive"}, Enter(t, n, mode)
        PROVE  UNCHANGED LockSet
    BY <1>0, <1>1, StutterMaps DEF TypeOK, Enter, Holds
  <1>2. ASSUME NEW t \in Threads, NEW n \in Names, NEW m \in Names, EnterRename(t, n, m)
        PROVE  UNCHANGED LockSet
    BY <1>0, <1>2, StutterMaps DEF TypeOK, EnterRename, Holds
  <1>3. ASSUME NEW t \in Threads, Relay(t) PROVE [Locks!Next]_(LockSet)
    <2>1. CASE Lock(t, "outer", "lock1", IF dst[t] = NULL THEN "run" ELSE "ctor2")
      <3> DEFINE n == src[t]
      <3>1. n \in Names /\ ~ Holds(t, n)
        BY <1>0, <2>1 DEF TypeOK, Lock, Holds
      <3>2. \A u \in Threads, m \in Names : Holds(u, m)' <=> Holds(u, m) \/ (u = t /\ m = n)
        BY <1>0, <2>1, <3>1 DEF TypeOK, Lock, Holds, call
      <3> HIDE DEF n
      <3>3. Locks!Acquire(t, n)
        BY <1>0, <3>1, <3>2, AcquireMaps
      <3> QED
        BY <3>1, <3>3 DEF Locks!Next
    <2>2. CASE Lock(t, "inner", "lock2", "run")
      <3> DEFINE n == dst[t]
      <3>0. n # src[t]
        BY <2>2, FreeOnceLocked DEF Lock
      <3>1. n \in Names /\ n # src[t] /\ ~ Holds(t, n)
        BY <1>0, <2>2, <3>0 DEF TypeOK, Lock, Holds
      <3>2. \A u \in Threads, m \in Names : Holds(u, m)' <=> Holds(u, m) \/ (u = t /\ m = n)
        BY <1>0, <2>2, <3>1 DEF TypeOK, Lock, Holds, call
      <3> HIDE DEF n
      <3>3. Locks!Acquire(t, n)
        BY <1>0, <3>1, <3>2, AcquireMaps
      <3> QED
        BY <3>1, <3>3 DEF Locks!Next
    <2>3. CASE Unlock(t, "inner", "unlock2", "dtor2")
      <3> DEFINE n == dst[t]
      <3>1. n \in Names /\ n # src[t] /\ Holds(t, n)
        BY <1>0, <2>3 DEF TypeOK, Unlock, Holds
      <3>2. \A u \in Threads, m \in Names : Holds(u, m)' <=> Holds(u, m) /\ ~ (u = t /\ m = n)
        BY <1>0, <2>3, <3>1 DEF TypeOK, Unlock, Holds, call
      <3> HIDE DEF n
      <3>3. Locks!Release(t, n)
        BY <3>1, <3>2, ReleaseMaps
      <3> QED
        BY <3>1, <3>3 DEF Locks!Next
    <2>4. CASE Unlock(t, "outer", "unlock1", "dtor1")
      <3> DEFINE n == src[t]
      <3>1. n \in Names /\ Holds(t, n)
        BY <1>0, <2>4 DEF TypeOK, Unlock, Holds
      <3>2. \A u \in Threads, m \in Names : Holds(u, m)' <=> Holds(u, m) /\ ~ (u = t /\ m = n)
        BY <1>0, <2>4, <3>1 DEF TypeOK, Unlock, Holds, call
      <3> HIDE DEF n
      <3>3. Locks!Release(t, n)
        BY <3>1, <3>2, ReleaseMaps
      <3> QED
        BY <3>1, <3>3 DEF Locks!Next
    <2>5. CASE Construct(t, "outer", src[t], "ctor1", "lock1") \/ Construct(t, "inner", dst[t], "ctor2", "lock2")
      BY <1>0, <2>5, StutterMaps DEF TypeOK, Construct, Holds, call
    <2>6. CASE Handle(t)
      BY <1>0, <2>6, StutterMaps DEF TypeOK, Handle, Holds, call
    <2>7. CASE Destroy(t, "inner", dst[t], "dtor2", "unlock1") /\ UNCHANGED call
      BY <1>0, <2>7, StutterMaps DEF TypeOK, Destroy, Holds, call
    <2>8. CASE Leave(t)
      BY <1>0, <2>8, StutterMaps DEF TypeOK, Leave, Destroy, Holds
    <2>9. CASE LockAgain(t)
      BY <1>0, <2>9, StutterMaps DEF TypeOK, LockAgain, Holds, call
    <2> QED
      BY <1>3, <2>1, <2>2, <2>3, <2>4, <2>5, <2>6, <2>7, <2>8, <2>9 DEF Relay
  <1>4. CASE UNCHANGED vars
    BY <1>4, StutterMaps DEF vars, Holds
  <1> QED
    BY <1>1, <1>2, <1>3, <1>4 DEF Next

(* The guard implements NameLocks: every step takes one free lock, gives   *)
(* one back, or does neither.                                              *)
THEOREM Refinement == Spec => ImplementsNameLocks
  <1>1. Init => Locks!Init
    BY DEF Init, Locks!Init, Holds
  <1>2. IInv /\ MutualExclusion' /\ [Next]_vars => [Locks!Next]_(LockSet)
    BY StepMaps
  <1> QED
    BY <1>1, <1>2, Invariance, Exclusion, PTL DEF Spec, ImplementsNameLocks, Locks!Spec, LockSet
==============================================================================
