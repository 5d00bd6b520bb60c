------------------------- MODULE FileDriver_proofs -------------------------
(***************************************************************************)
(* Proofs about the file callbacks, for any paths, contexts, cache files,  *)
(* DirEntry objects and circumstances.                                     *)
(***************************************************************************)
EXTENDS FileDriver, FiniteSetTheorems, TLAPS

------------------------------------------------------------------------------
(* There is always a DirEntry object and a cache file that nothing points  *)
(* to.                                                                     *)
LEMMA Images ==
  ASSUME NEW S, IsFiniteSet(S), NEW f, f = [x \in S |-> f[x]]
  PROVE  LET T == {f[x] : x \in S} IN IsFiniteSet(T) /\ Cardinality(T) \in Nat /\ Cardinality(T) <= Cardinality(S)
<1> DEFINE T == {f[x] : x \in S}
<1>1. f \in Surjection(S, T) BY DEF Surjection
<1>2. IsFiniteSet(T) /\ Cardinality(T) <= Cardinality(S) BY <1>1, FS_Surjection
<1> QED BY <1>2, FS_CardinalityType

LEMMA Unions ==
  ASSUME NEW S, NEW T, IsFiniteSet(S), IsFiniteSet(T)
  PROVE  /\ IsFiniteSet(S \cup T) /\ Cardinality(S \cup T) \in Nat
         /\ Cardinality(S \cup T) <= Cardinality(S) + Cardinality(T)
<1>1. /\ IsFiniteSet(S \cup T)
      /\ Cardinality(S \cup T) = Cardinality(S) + Cardinality(T) - Cardinality(S \cap T)
  BY FS_Union
<1>2. IsFiniteSet(S \cap T) BY FS_Intersection
<1> QED BY <1>1, <1>2, FS_CardinalityType

LEMMA EntryLeft ==
  ASSUME TypeOK
  PROVE  /\ NewEntry \in Entries \ LiveEntries /\ NewEntry \notin {NULL, ABSENT}
         /\ LiveEntries \subseteq Entries
<1> DEFINE M == [p \in Paths |-> mOpen[p].entry]
           C == [c \in Contexts |-> ctx[c].entry]
           MS == {M[p] : p \in Paths}
           HS == {headCache[p] : p \in Paths}
           CS == {C[c] : c \in Contexts}
<1>1. IsFiniteSet(MS) /\ Cardinality(MS) \in Nat /\ Cardinality(MS) <= Cardinality(Paths)
  BY Images, SomeOfEach
<1>2. IsFiniteSet(HS) /\ Cardinality(HS) \in Nat /\ Cardinality(HS) <= Cardinality(Paths)
  BY Images, SomeOfEach DEF TypeOK
<1>3. IsFiniteSet(CS) /\ Cardinality(CS) \in Nat /\ Cardinality(CS) <= Cardinality(Contexts)
  BY Images, SomeOfEach
<1>4. LiveEntries \subseteq (MS \cup HS) \cup CS BY DEF LiveEntries
<1>5. LiveEntries \subseteq Entries
  BY NullIsNoObject DEF LiveEntries, TypeOK, Context, Unregistered
<1> HIDE DEF MS, HS, CS
<1>0. Cardinality(Paths) \in Nat /\ Cardinality(Contexts) \in Nat BY FS_CardinalityType, SomeOfEach
<1>6. /\ IsFiniteSet(MS \cup HS) /\ Cardinality(MS \cup HS) \in Nat
      /\ Cardinality(MS \cup HS) <= 2 * Cardinality(Paths)
  BY <1>0, <1>1, <1>2, Unions
<1>7. /\ IsFiniteSet((MS \cup HS) \cup CS)
      /\ Cardinality((MS \cup HS) \cup CS) <= 2 * Cardinality(Paths) + Cardinality(Contexts)
      /\ Cardinality((MS \cup HS) \cup CS) \in Nat
  <2>1. /\ IsFiniteSet((MS \cup HS) \cup CS) /\ Cardinality((MS \cup HS) \cup CS) \in Nat
        /\ Cardinality((MS \cup HS) \cup CS) <= Cardinality(MS \cup HS) + Cardinality(CS)
    BY <1>3, <1>6, Unions
  <2> QED BY <2>1, <1>0, <1>3, <1>6
<1>8. /\ IsFiniteSet(LiveEntries)
      /\ Cardinality(LiveEntries) <= 2 * Cardinality(Paths) + Cardinality(Contexts)
  BY <1>4, <1>7, FS_Subset, FS_CardinalityType, SomeOfEach
<1>9. LiveEntries # Entries BY <1>5, <1>8, RoomForOneMore
<1>10. \E e \in Entries : e \notin LiveEntries BY <1>5, <1>9
<1> QED BY <1>5, <1>10, NullIsNoObject DEF NewEntry

LEMMA FileLeft ==
  ASSUME TypeOK
  PROVE  NewFile \in Files \ LiveFiles /\ NewFile # NULL /\ LiveFiles \subseteq Files
<1> DEFINE C == [c \in Contexts |-> ctx[c].handle]
           AS == {cacheAt[p] : p \in Paths}
           CS == {C[c] : c \in Contexts}
<1>1. IsFiniteSet(AS) /\ Cardinality(AS) \in Nat /\ Cardinality(AS) <= Cardinality(Paths)
  BY Images, SomeOfEach DEF TypeOK
<1>2. IsFiniteSet(CS) /\ Cardinality(CS) \in Nat /\ Cardinality(CS) <= Cardinality(Contexts)
  BY Images, SomeOfEach
<1>3. LiveFiles \subseteq AS \cup CS BY DEF LiveFiles
<1>4. LiveFiles \subseteq Files BY DEF LiveFiles, TypeOK, Context
<1> HIDE DEF AS, CS
<1>5. /\ IsFiniteSet(AS \cup CS) /\ Cardinality(AS \cup CS) \in Nat
      /\ Cardinality(AS \cup CS) <= Cardinality(Paths) + Cardinality(Contexts)
  BY <1>1, <1>2, Unions, FS_CardinalityType, SomeOfEach
<1>6. /\ IsFiniteSet(LiveFiles)
      /\ Cardinality(LiveFiles) <= Cardinality(Paths) + Cardinality(Contexts)
  BY <1>3, <1>5, FS_Subset, FS_CardinalityType, SomeOfEach
<1>7. LiveFiles # Files BY <1>4, <1>6, RoomForOneMore
<1>8. \E f \in Files : f \notin LiveFiles BY <1>4, <1>7
<1> QED BY <1>4, <1>8, NullIsNoObject DEF NewFile
------------------------------------------------------------------------------
(* The parts of TypeOK, as sets of values.                                 *)
Registration == {Unregistered} \cup [entry : Entries, ref : Nat \ {0}]
Tables       == [Paths -> Registration]
HeadCaches   == [Paths -> Entries \cup {NULL, ABSENT}]
Buckets      == [Paths -> Object \cup {NULL}]

(* a context record that is free as a whole or in use as a whole           *)
ContextOK(k) ==
  /\ k \in Context
  /\ IF k.state # "free" THEN NULL \notin {k.path, k.name, k.entry} ELSE k = NoContext
  /\ k.state = "open" => k.handle # NULL

ContextsOK(cs) == cs = [c \in Contexts |-> cs[c]] /\ \A c \in Contexts : ContextOK(cs[c])

(* what m, hc and cs, or at and cs, point to is in D                       *)
EntriesIn(m, hc, cs, D) ==
  /\ \A p \in Paths : m[p].entry \in D \cup {NULL} /\ hc[p] \in D \cup {NULL, ABSENT}
  /\ \A c \in Contexts : cs[c].entry \in D \cup {NULL}

FilesIn(at, cs, D) ==
  /\ \A p \in Paths : at[p] \in D \cup {NULL}
  /\ \A c \in Contexts : cs[c].handle \in D \cup {NULL}

HeapOK(h) == h = [e \in DOMAIN h |-> h[e]] /\ \A e \in DOMAIN h : h[e] \in Entry
DiskOK(d) == d = [f \in DOMAIN d |-> d[f]] /\ \A f \in DOMAIN d : d[f] \in File

LEMMA TypesApart ==
  TypeOK <=>
    /\ remote \in Buckets
    /\ cacheAt \in [Paths -> Files \cup {NULL}]
    /\ DOMAIN file = LiveFiles /\ DiskOK(file)
    /\ DOMAIN heap = LiveEntries /\ HeapOK(heap)
    /\ mOpen \in Tables
    /\ headCache \in HeadCaches
    /\ ContextsOK(ctx)
    /\ deleting \subseteq Paths
    /\ truth \in [Paths -> Nat \cup {NULL}]
    /\ clock \in Nat
    /\ world \in Worlds
<1>1. ctx \in [Contexts -> Context] /\
        (\A c \in Contexts :
          /\ IF InUse(c) THEN NULL \notin {ctx[c].path, ctx[c].name, ctx[c].entry}
                         ELSE ctx[c] = NoContext
          /\ IsOpen(c) => ctx[c].handle # NULL)
      <=> ContextsOK(ctx)
  BY DEF ContextsOK, ContextOK, InUse, IsOpen
<1>2. file \in [LiveFiles -> File] <=> DOMAIN file = LiveFiles /\ DiskOK(file)
  BY DEF DiskOK
<1>3. heap \in [LiveEntries -> Entry] <=> DOMAIN heap = LiveEntries /\ HeapOK(heap)
  BY DEF HeapOK
<1> QED BY <1>1, <1>2, <1>3 DEF TypeOK, Buckets, Tables, Registration, HeadCaches

LEMMA TypesAfter ==
  ASSUME remote' \in Buckets, cacheAt' \in [Paths -> Files \cup {NULL}],
         DOMAIN file' = LiveFiles', DiskOK(file'),
         DOMAIN heap' = LiveEntries', HeapOK(heap'),
         mOpen' \in Tables, headCache' \in HeadCaches, ContextsOK(ctx'),
         deleting' \subseteq Paths, truth' \in [Paths -> Nat \cup {NULL}],
         clock' \in Nat, world' \in Worlds
  PROVE  TypeOK'
<1>1. ctx' \in [Contexts -> Context] /\
        (\A c \in Contexts :
          /\ IF InUse(c)' THEN NULL \notin {ctx'[c].path, ctx'[c].name, ctx'[c].entry}
                          ELSE ctx'[c] = NoContext
          /\ IsOpen(c)' => ctx'[c].handle # NULL)
  BY DEF ContextsOK, ContextOK, InUse, IsOpen
<1>2. file' \in [LiveFiles' -> File] BY DEF DiskOK
<1>3. heap' \in [LiveEntries' -> Entry] BY DEF HeapOK
<1> QED BY <1>1, <1>2, <1>3 DEF TypeOK, Buckets, Tables, Registration, HeadCaches

LEMMA Pointed ==
  ASSUME TypeOK
  PROVE  EntriesIn(mOpen, headCache, ctx, LiveEntries) /\ FilesIn(cacheAt, ctx, LiveFiles)
  BY NullIsNoObject DEF TypeOK, EntriesIn, FilesIn, LiveEntries, LiveFiles, Context, Unregistered

LEMMA LiveWithin ==
  ASSUME NEW D, NEW F
  PROVE  /\ EntriesIn(mOpen, headCache, ctx, D) => LiveEntries \subseteq D
         /\ FilesIn(cacheAt, ctx, F) => LiveFiles \subseteq F
  BY DEF EntriesIn, FilesIn, LiveEntries, LiveFiles

(* Heap and Disk keep the values of what is pointed to.                    *)
LEMMA HeapStays ==
  ASSUME NEW h, HeapOK(h), Heap(h), EntriesIn(mOpen', headCache', ctx', DOMAIN h)
  PROVE  /\ DOMAIN heap' = LiveEntries' /\ HeapOK(heap') /\ LiveEntries' \subseteq DOMAIN h
         /\ \A e \in LiveEntries' : heap'[e] = h[e]
<1>1. LiveEntries' \subseteq DOMAIN h BY DEF EntriesIn, LiveEntries
<1> QED BY <1>1 DEF Heap, Restrict, HeapOK

LEMMA DiskStays ==
  ASSUME NEW d, DiskOK(d), Disk(d), FilesIn(cacheAt', ctx', DOMAIN d)
  PROVE  /\ DOMAIN file' = LiveFiles' /\ DiskOK(file') /\ LiveFiles' \subseteq DOMAIN d
         /\ \A f \in LiveFiles' : file'[f] = d[f]
<1>1. LiveFiles' \subseteq DOMAIN d BY DEF FilesIn, LiveFiles
<1> QED BY <1>1 DEF Disk, Restrict, DiskOK

LEMMA WithFits ==
  ASSUME NEW f, NEW x, NEW v
  PROVE  /\ DOMAIN With(f, x, v) = DOMAIN f \cup {x} /\ With(f, x, v)[x] = v
         /\ \A y \in DOMAIN f : y # x => With(f, x, v)[y] = f[y]
         /\ With(f, x, v) = [y \in DOMAIN With(f, x, v) |-> With(f, x, v)[y]]
  BY DEF With

(* The table after each of its operations.                                 *)
LEMMA TableFits ==
  ASSUME NEW m \in Tables, NEW p \in Paths
  PROVE  /\ Release(m, p) \in Tables
         /\ \A e \in Entries : Register(m, p, e) \in Tables
         /\ m[p] # Unregistered => Acquire(m, p) \in Tables
         /\ m[p].ref \in Nat
         /\ m[p] = Unregistered <=> m[p].ref = 0
         /\ m[p] = Unregistered <=> m[p].entry = NULL
         /\ m[p] # Unregistered => m[p].entry \in Entries /\ m[p].ref \in Nat \ {0}
<1>1. m[p] \in Registration BY DEF Tables
<1>2. /\ m[p].ref \in Nat
      /\ m[p] = Unregistered <=> m[p].ref = 0
      /\ m[p] = Unregistered <=> m[p].entry = NULL
      /\ m[p] # Unregistered => m[p].entry \in Entries /\ m[p].ref \in Nat \ {0}
  BY <1>1, NullIsNoObject DEF Registration, Unregistered
<1>3. m[p] # Unregistered => m[p] \in [entry : Entries, ref : Nat \ {0}]
  BY <1>1 DEF Registration
<1>4. (IF m[p].ref <= 1 THEN Unregistered ELSE [entry |-> m[p].entry, ref |-> m[p].ref - 1]) \in Registration
  BY <1>2, <1>3 DEF Registration
<1>5. Release(m, p) \in Tables BY <1>4 DEF Release, Tables
<1>6. \A e \in Entries : Register(m, p, e) \in Tables
  BY DEF Register, Tables, Registration
<1>7. m[p] # Unregistered => [m[p] EXCEPT !.ref = @ + 1] \in Registration
  BY <1>2, <1>3 DEF Registration
<1>8. m[p] # Unregistered => Acquire(m, p) \in Tables
  BY <1>7 DEF Acquire, Tables
<1> QED BY <1>2, <1>5, <1>6, <1>8
------------------------------------------------------------------------------
(* What the operators of the callbacks return.                             *)
HeadGives(o, p, r, hc, h) ==
  \/ hc[p] = ABSENT /\ o.entry = NULL /\ o.cache = hc /\ o.heap = h
  \/ hc[p] \in Entries /\ o.entry = hc[p] /\ o.cache = hc /\ o.heap = h
  \/ /\ hc[p] = NULL /\ (r[p] = NULL \/ May("head"))
     /\ o.entry = NULL /\ o.cache = [hc EXCEPT ![p] = ABSENT] /\ o.heap = h
  \/ /\ hc[p] = NULL /\ r[p] # NULL
     /\ o.entry = NewEntry /\ o.cache = [hc EXCEPT ![p] = NewEntry]
     /\ o.heap = With(h, NewEntry, [stamp |-> r[p].stamp, sized |-> r[p].data # 0])

LEMMA HeadObjectGives ==
  ASSUME NEW p \in Paths, NEW r, NEW hc \in HeadCaches, NEW h, NEW o \in HeadObject(p, r, hc, h)
  PROVE  HeadGives(o, p, r, hc, h)
<1> DEFINE found  == [entry |-> NewEntry, cache |-> [hc EXCEPT ![p] = NewEntry],
                      heap |-> With(h, NewEntry, [stamp |-> r[p].stamp, sized |-> r[p].data # 0])]
           missed == [entry |-> NULL, cache |-> [hc EXCEPT ![p] = ABSENT], heap |-> h]
<1>1. hc[p] \in Entries \/ hc[p] = NULL \/ hc[p] = ABSENT BY DEF HeadCaches
<1>2. CASE hc[p] = ABSENT
  <2>1. HeadObject(p, r, hc, h) = {[entry |-> NULL, cache |-> hc, heap |-> h]}
    BY <1>2, NullIsNoObject DEF HeadObject
  <2> QED BY <1>2, <2>1 DEF HeadGives
<1>3. CASE hc[p] \in Entries
  <2>1. HeadObject(p, r, hc, h) = {[entry |-> hc[p], cache |-> hc, heap |-> h]}
    BY <1>3, NullIsNoObject DEF HeadObject
  <2> QED BY <1>3, <2>1 DEF HeadGives
<1>4. CASE hc[p] = NULL /\ r[p] = NULL
  <2>1. HeadObject(p, r, hc, h) = {missed} BY <1>4, NullIsNoObject DEF HeadObject
  <2> QED BY <1>4, <2>1 DEF HeadGives
<1>5. CASE hc[p] = NULL /\ r[p] # NULL
  <2>1. HeadObject(p, r, hc, h) = {found} \cup (IF May("head") THEN {missed} ELSE {})
    BY <1>5, NullIsNoObject DEF HeadObject
  <2>2. o = found \/ (May("head") /\ o = missed) BY <2>1
  <2>3. CASE o = found BY <1>5, <2>3 DEF HeadGives
  <2>4. CASE May("head") /\ o = missed BY <1>5, <2>4 DEF HeadGives
  <2> QED BY <2>2, <2>3, <2>4
<1> QED BY <1>1, <1>2, <1>3, <1>4, <1>5

(* o is a lookup of p in the cache hc                                      *)
Looked(o, p, hc) ==
  /\ o.cache \in HeadCaches /\ HeapOK(o.heap)
  /\ LiveEntries \subseteq DOMAIN o.heap /\ DOMAIN o.heap \subseteq LiveEntries \cup {NewEntry}
  /\ \A q \in Paths : o.cache[q] \in DOMAIN o.heap \cup {NULL, ABSENT}
  /\ \A q \in Paths \ {p} : o.cache[q] = hc[q]
  /\ o.entry \in DOMAIN o.heap \cup {NULL} /\ o.entry # ABSENT
  /\ o.entry # NULL => o.cache[p] = o.entry
  /\ \A e \in LiveEntries : o.heap[e] = heap[e]

LEMMA HeadObjectFits ==
  ASSUME TypeOK, NEW p \in Paths, NEW r \in Buckets, NEW hc \in HeadCaches,
         \A q \in Paths : hc[q] \in {headCache[q], NULL, ABSENT},
         NEW o \in HeadObject(p, r, hc, heap)
  PROVE  Looked(o, p, hc)
<1>1. /\ NewEntry \in Entries \ LiveEntries /\ LiveEntries \subseteq Entries
      /\ DOMAIN heap = LiveEntries /\ HeapOK(heap) /\ NewEntry \notin {NULL, ABSENT}
  BY EntryLeft, TypesApart
<1>2. \A q \in Paths : hc[q] \in LiveEntries \cup {NULL, ABSENT}
  BY Pointed DEF EntriesIn
<1>3. CASE o.cache = hc /\ o.heap = heap /\ (o.entry = NULL \/ (o.entry = hc[p] /\ hc[p] \in Entries))
  BY <1>1, <1>2, <1>3, NullIsNoObject DEF Looked
<1>4. CASE o.cache = [hc EXCEPT ![p] = ABSENT] /\ o.heap = heap /\ o.entry = NULL
  BY <1>1, <1>2, <1>4, NullIsNoObject DEF HeadCaches, Looked
<1>5. CASE /\ o.entry = NewEntry /\ r[p] # NULL /\ o.cache = [hc EXCEPT ![p] = NewEntry]
           /\ o.heap = With(heap, NewEntry, [stamp |-> r[p].stamp, sized |-> r[p].data # 0])
  <2>1. [stamp |-> r[p].stamp, sized |-> r[p].data # 0] \in Entry
    BY <1>5 DEF Buckets, Object, Entry
  <2>2. HeapOK(o.heap) /\ DOMAIN o.heap = LiveEntries \cup {NewEntry} /\ \A e \in LiveEntries : o.heap[e] = heap[e]
    <3> DEFINE v == [stamp |-> r[p].stamp, sized |-> r[p].data # 0]
    <3>0. o.heap = With(heap, NewEntry, v) BY <1>5
    <3> HIDE DEF v
    <3>3. o.heap = [y \in LiveEntries \cup {NewEntry} |-> IF y = NewEntry THEN v ELSE heap[y]]
      BY <1>1, <3>0 DEF With
    <3>1. /\ DOMAIN o.heap = LiveEntries \cup {NewEntry} /\ o.heap[NewEntry] = v
          /\ \A e \in LiveEntries : o.heap[e] = heap[e]
      BY <1>1, <3>3
    <3>2. o.heap = [e \in DOMAIN o.heap |-> o.heap[e]] BY <3>3
    <3> QED BY <2>1, <3>1, <3>2, <1>1 DEF HeapOK, v
  <2>3. o.cache \in HeadCaches /\ o.cache[p] = NewEntry /\ \A q \in Paths \ {p} : o.cache[q] = hc[q]
    BY <1>1, <1>5 DEF HeadCaches
  <2>4. \A q \in Paths : o.cache[q] \in DOMAIN o.heap \cup {NULL, ABSENT}
    BY <2>2, <2>3, <1>2
  <2>5. o.entry \in DOMAIN o.heap \cup {NULL} /\ o.entry # ABSENT /\ o.cache[p] = o.entry
    BY <2>2, <2>3, <1>1, <1>5
  <2>6. o.cache \in HeadCaches /\ \A q \in Paths \ {p} : o.cache[q] = hc[q] BY <2>3
  <2>7. /\ HeapOK(o.heap) /\ LiveEntries \subseteq DOMAIN o.heap
        /\ DOMAIN o.heap \subseteq LiveEntries \cup {NewEntry}
        /\ \A e \in LiveEntries : o.heap[e] = heap[e]
    BY <2>2
  <2> QED BY <2>4, <2>5, <2>6, <2>7 DEF Looked
<1>6. \/ hc[p] = ABSENT /\ o.entry = NULL /\ o.cache = hc /\ o.heap = heap
      \/ hc[p] \in Entries /\ o.entry = hc[p] /\ o.cache = hc /\ o.heap = heap
      \/ /\ hc[p] = NULL /\ (r[p] = NULL \/ May("head"))
         /\ o.entry = NULL /\ o.cache = [hc EXCEPT ![p] = ABSENT] /\ o.heap = heap
      \/ /\ hc[p] = NULL /\ r[p] # NULL
         /\ o.entry = NewEntry /\ o.cache = [hc EXCEPT ![p] = NewEntry]
         /\ o.heap = With(heap, NewEntry, [stamp |-> r[p].stamp, sized |-> r[p].data # 0])
  BY HeadObjectGives DEF HeadGives
<1> QED BY <1>3, <1>4, <1>5, <1>6

LEMMA SyncContentGives ==
  ASSUME NEW c \in Contexts, NEW o \in SyncContent(c), heap[ctx[c].entry].sized \in BOOLEAN
  PROVE  LET f == ctx[c].handle
             e == heap[ctx[c].entry]
             r == remote[ctx[c].path]
         IN \/ /\ o.file = file
               /\ o.ok => ~e.sized \/ (Reachable(f) /\ file[f].data # 0)
               /\ ~o.ok /\ e.sized /\ Reachable(f) /\ file[f].data = 0 => r = NULL \/ r.data = 0 \/ May("get")
               /\ ~o.ok => e.sized /\ (Reachable(f) => file[f].data = 0)
            \/ /\ o.ok /\ e.sized /\ Reachable(f) /\ file[f].data = 0 /\ r # NULL /\ r.data # 0
               /\ o.file = [file EXCEPT ![f].data = r.data, ![f].stamp = e.stamp]
<1> DEFINE f == ctx[c].handle
           e == heap[ctx[c].entry]
           r == remote[ctx[c].path]
           there == r # NULL /\ r.data # 0
           same(ok) == [ok |-> ok, file |-> file]
           got == [ok |-> TRUE, file |-> [file EXCEPT ![f].data = r.data, ![f].stamp = e.stamp]]
<1>1. CASE ~e.sized
  <2>1. SyncContent(c) = {same(TRUE)} BY <1>1 DEF SyncContent
  <2> QED BY <1>1, <2>1
<1>2. CASE e.sized /\ ~Reachable(f)
  <2>1. SyncContent(c) = {same(FALSE)} BY <1>2 DEF SyncContent
  <2>2. o = same(FALSE) BY <2>1
  <2> QED BY <1>2, <2>2
<1>3. CASE e.sized /\ Reachable(f) /\ file[f].data # 0
  <2>1. SyncContent(c) = {same(TRUE)} BY <1>3 DEF SyncContent
  <2> QED BY <1>3, <2>1
<1>4. CASE e.sized /\ Reachable(f) /\ file[f].data = 0
  <2>1. SyncContent(c) = (IF there THEN {got} ELSE {}) \cup (IF there /\ ~May("get") THEN {} ELSE {same(FALSE)})
    BY <1>4 DEF SyncContent
  <2>2. (there /\ o = got) \/ (~(there /\ ~May("get")) /\ o = same(FALSE)) BY <2>1
  <2>3. CASE there /\ o = got BY <1>4, <2>3
  <2>4. CASE ~(there /\ ~May("get")) /\ o = same(FALSE) BY <1>4, <2>4
  <2> QED BY <2>2, <2>3, <2>4
<1> QED BY <1>1, <1>2, <1>3, <1>4

LEMMA SyncContentFits ==
  ASSUME TypeOK, NEW c \in Contexts, InUse(c), ctx[c].handle # NULL, NEW o \in SyncContent(c)
  PROVE  DOMAIN o.file = LiveFiles /\ DiskOK(o.file)
<1>1. ctx[c].handle \in LiveFiles /\ ctx[c].entry \in LiveEntries
  BY Pointed, NullIsNoObject DEF FilesIn, EntriesIn, TypeOK
<1>2. DOMAIN file = LiveFiles /\ DiskOK(file) /\ HeapOK(heap) /\ DOMAIN heap = LiveEntries BY TypesApart
<1>3. heap[ctx[c].entry] \in Entry BY <1>1, <1>2 DEF HeapOK
<1>4. heap[ctx[c].entry].sized \in BOOLEAN BY <1>3 DEF Entry
<1>5. remote[ctx[c].path] # NULL => remote[ctx[c].path] \in Object
  BY DEF TypeOK, InUse, Context
<1>6. CASE o.file = file BY <1>2, <1>6
<1>7. CASE /\ o.file = [file EXCEPT ![ctx[c].handle].data = remote[ctx[c].path].data,
                                    ![ctx[c].handle].stamp = heap[ctx[c].entry].stamp]
           /\ remote[ctx[c].path] # NULL
  <2>1. remote[ctx[c].path].data \in Nat /\ heap[ctx[c].entry].stamp \in Nat
    BY <1>3, <1>5, <1>7 DEF Object, Entry
  <2>2. file[ctx[c].handle] \in File BY <1>1, <1>2 DEF DiskOK
  <2>3. [file[ctx[c].handle] EXCEPT !.data = remote[ctx[c].path].data, !.stamp = heap[ctx[c].entry].stamp] \in File
    BY <2>1, <2>2 DEF File
  <2>4. o.file = [file EXCEPT ![ctx[c].handle] =
          [file[ctx[c].handle] EXCEPT !.data = remote[ctx[c].path].data, !.stamp = heap[ctx[c].entry].stamp]]
    BY <1>7
  <2> QED BY <2>3, <2>4, <1>1, <1>2 DEF DiskOK
<1> QED BY <1>4, <1>6, <1>7, SyncContentGives

LEMMA PutObjectGives ==
  ASSUME NEW c \in Contexts, NEW fs, NEW u \in PutObject(c, fs)
  PROVE  LET p == ctx[c].path
             f == ctx[c].handle
         IN \/ u = NotUploaded(fs) /\ (~Reachable(f) \/ May("put"))
            \/ /\ Reachable(f) /\ May("put")
               /\ u = [remote |-> StoredObject(c, fs), cache |-> headCache, heap |-> heap, file |-> fs]
            \/ /\ Reachable(f)
               /\ \E o \in HeadObject(p, StoredObject(c, fs), [headCache EXCEPT ![p] = NULL], heap) :
                  \E s \in world.deleteAfterUpload :
                    u = [remote |-> StoredObject(c, fs), cache |-> o.cache, heap |-> o.heap,
                         file |-> AfterUpload(fs, f, s)]
<1> DEFINE p == ctx[c].path
           f == ctx[c].handle
           found == HeadObject(p, StoredObject(c, fs), [headCache EXCEPT ![p] = NULL], heap)
<1>1. CASE ~Reachable(f)
  <2>1. PutObject(c, fs) = {NotUploaded(fs)} BY <1>1 DEF PutObject
  <2> QED BY <1>1, <2>1
<1>2. CASE Reachable(f)
  <2> DEFINE all == UNION {Uploads(c, fs, o) : o \in found}
             lost == [remote |-> StoredObject(c, fs), cache |-> headCache, heap |-> heap, file |-> fs]
  <2>1. PutObject(c, fs) = all \cup (IF May("put") THEN PutFails(c, fs) ELSE {})
    BY <1>2 DEF PutObject
  <2>2. u \in all => \E o \in found : u \in Uploads(c, fs, o) BY Zenon
  <2>3. PutFails(c, fs) = {NotUploaded(fs), lost} BY DEF PutFails, NotUploaded
  <2> HIDE DEF all, found, lost
  <2>4. u \in all \/ (May("put") /\ (u = NotUploaded(fs) \/ u = lost)) BY <2>1, <2>3
  <2> QED BY <1>2, <2>2, <2>4 DEF found, lost, Uploads
<1> QED BY <1>1, <1>2

(* u is what a closed file leaves                                           *)
Uploaded(u) ==
  /\ u.remote \in Buckets /\ u.cache \in HeadCaches /\ HeapOK(u.heap)
  /\ LiveEntries \subseteq DOMAIN u.heap
  /\ \A q \in Paths : u.cache[q] \in DOMAIN u.heap \cup {NULL, ABSENT}
  /\ \A e \in LiveEntries : u.heap[e] = heap[e]
  /\ DOMAIN u.file = LiveFiles /\ DiskOK(u.file)

LEMMA DiskEdits ==
  ASSUME NEW d, DiskOK(d), NEW f \in DOMAIN d
  PROVE  /\ \A b \in BOOLEAN : LET g == [d EXCEPT ![f].pending = b] IN DiskOK(g) /\ DOMAIN g = DOMAIN d
         /\ \A n \in Nat : LET g == [d EXCEPT ![f].data = n] IN DiskOK(g) /\ DOMAIN g = DOMAIN d
         /\ \A n \in Nat : LET g == [d EXCEPT ![f].stamp = n] IN DiskOK(g) /\ DOMAIN g = DOMAIN d
<1>1. d[f] \in File BY DEF DiskOK
<1>2. \A b \in BOOLEAN : [d[f] EXCEPT !.pending = b] \in File BY <1>1 DEF File
<1>3. \A n \in Nat : [d[f] EXCEPT !.data = n] \in File BY <1>1 DEF File
<1>4. \A n \in Nat : [d[f] EXCEPT !.stamp = n] \in File BY <1>1 DEF File
<1> QED BY <1>2, <1>3, <1>4 DEF DiskOK

(* the cache file of c's handle is to be deleted with its last handle, and *)
(* c's is the last                                                          *)
Goes(c, fs)   == fs[ctx[c].handle].pending \/ ctx[c].deleteOnClose
LastHandle(c) == \A d \in Contexts \ {c} : ctx[d].handle # ctx[c].handle

LEMMA ClosedFits ==
  ASSUME NEW c \in Contexts, NEW at \in [Paths -> Files \cup {NULL}], NEW fs, DiskOK(fs),
         ctx[c].handle \in DOMAIN fs, ctx[c].deleteOnClose \in BOOLEAN
  PROVE  /\ DiskOK(CloseHandle(c, at, fs).file) /\ DOMAIN CloseHandle(c, at, fs).file = DOMAIN fs
         /\ \A g \in DOMAIN fs : CloseHandle(c, at, fs).file[g] =
              IF g = ctx[c].handle THEN [fs[g] EXCEPT !.pending = Goes(c, fs)] ELSE fs[g]
         /\ CloseHandle(c, at, fs).at \in [Paths -> Files \cup {NULL}]
         /\ \A p \in Paths : CloseHandle(c, at, fs).at[p] =
              IF Goes(c, fs) /\ LastHandle(c) /\ at[p] = ctx[c].handle THEN NULL ELSE at[p]
<1> DEFINE f    == ctx[c].handle
           disk == CloseHandle(c, at, fs)
<1>1. Goes(c, fs) \in BOOLEAN BY DEF DiskOK, File, Goes
<1>2. disk.file = [fs EXCEPT ![f].pending = Goes(c, fs)] BY DEF CloseHandle, Goes
<1>3. disk.at = IF Goes(c, fs) /\ LastHandle(c) THEN [p \in Paths |-> IF at[p] = f THEN NULL ELSE at[p]] ELSE at
  BY DEF CloseHandle, Goes, LastHandle
<1> HIDE DEF disk
<1>4. DiskOK(disk.file) /\ DOMAIN disk.file = DOMAIN fs BY <1>1, <1>2, DiskEdits
<1>5. \A g \in DOMAIN fs : disk.file[g] = IF g = f THEN [fs[g] EXCEPT !.pending = Goes(c, fs)] ELSE fs[g]
  BY <1>2 DEF DiskOK
<1>6. disk.at \in [Paths -> Files \cup {NULL}] BY <1>3
<1>7. \A p \in Paths : disk.at[p] = IF Goes(c, fs) /\ LastHandle(c) /\ at[p] = f THEN NULL ELSE at[p]
  BY <1>3
<1> QED BY <1>4, <1>5, <1>6, <1>7 DEF disk

LEMMA ClosedType ==
  ASSUME NEW c \in Contexts, NEW at \in [Paths -> Files \cup {NULL}], NEW fs, DiskOK(fs),
         ctx[c].handle \in DOMAIN fs, ctx[c].deleteOnClose \in BOOLEAN
  PROVE  /\ DiskOK(CloseHandle(c, at, fs).file) /\ DOMAIN CloseHandle(c, at, fs).file = DOMAIN fs
         /\ CloseHandle(c, at, fs).at \in [Paths -> Files \cup {NULL}]
         /\ \A p \in Paths : CloseHandle(c, at, fs).at[p] \in {at[p], NULL}
<1>1. /\ DiskOK(CloseHandle(c, at, fs).file) /\ DOMAIN CloseHandle(c, at, fs).file = DOMAIN fs
      /\ CloseHandle(c, at, fs).at \in [Paths -> Files \cup {NULL}]
  BY ClosedFits
<1>2. \A p \in Paths : CloseHandle(c, at, fs).at[p] =
         IF Goes(c, fs) /\ LastHandle(c) /\ at[p] = ctx[c].handle THEN NULL ELSE at[p]
  BY ClosedFits
<1> QED BY <1>1, <1>2

LEMMA UploadFits ==
  ASSUME TypeOK, NEW c \in Contexts, InUse(c), ctx[c].handle # NULL, NEW u \in UploadWhenClosing(c)
  PROVE  Uploaded(u)
<1> DEFINE p == ctx[c].path
           f == ctx[c].handle
<1>1. f \in LiveFiles /\ ctx[c].entry \in LiveEntries /\ p \in Paths
  BY Pointed, NullIsNoObject DEF FilesIn, EntriesIn, TypeOK, InUse, Context
<1>2. DOMAIN file = LiveFiles /\ DiskOK(file) /\ HeapOK(heap) /\ DOMAIN heap = LiveEntries
      /\ remote \in Buckets /\ headCache \in HeadCaches
  BY TypesApart
<1>3. heap[ctx[c].entry].stamp \in Nat BY <1>1, <1>2 DEF HeapOK, Entry
<1>4. \A q \in Paths : headCache[q] \in LiveEntries \cup {NULL, ABSENT} BY Pointed DEF EntriesIn
<1>5. PICK o \in SyncContent(c) : u \in IF o.ok THEN PutObject(c, o.file) ELSE {NotUploaded(o.file)}
  BY DEF UploadWhenClosing
<1>6. DOMAIN o.file = LiveFiles /\ DiskOK(o.file) BY SyncContentFits
<1> DEFINE stored == StoredObject(c, o.file)
           hc == [headCache EXCEPT ![p] = NULL]
           lost == [remote |-> stored, cache |-> headCache, heap |-> heap, file |-> o.file]
<1>7. stored \in Buckets
  <2>1. [data |-> o.file[f].data, stamp |-> heap[ctx[c].entry].stamp] \in Object
    BY <1>1, <1>3, <1>6 DEF DiskOK, File, Object
  <2> QED BY <1>1, <1>2, <2>1 DEF Buckets, StoredObject
<1>8. CASE u = NotUploaded(o.file) \/ u = lost
  <2>1. /\ u.remote \in {remote, stored} /\ u.cache = headCache /\ u.heap = heap /\ u.file = o.file
    BY <1>8 DEF NotUploaded
  <2> HIDE DEF stored
  <2> QED BY <1>2, <1>4, <1>6, <1>7, <2>1 DEF Uploaded
<1>9. CASE u \in PutObject(c, o.file) /\ u # NotUploaded(o.file) /\ u # lost
  <2>1. PICK v \in HeadObject(p, stored, hc, heap), s \in world.deleteAfterUpload :
          u = [remote |-> stored, cache |-> v.cache, heap |-> v.heap, file |-> AfterUpload(o.file, f, s)]
    BY <1>9, PutObjectGives
  <2>2. u.remote = stored /\ u.cache = v.cache /\ u.heap = v.heap /\ u.file = AfterUpload(o.file, f, s)
    BY <2>1
  <2>3. stored \in Buckets BY <1>7
  <2>4. hc \in HeadCaches /\ \A q \in Paths : hc[q] \in {headCache[q], NULL, ABSENT}
    BY <1>1, <1>2 DEF HeadCaches
  <2> HIDE DEF stored, hc
  <2>5. Looked(v, p, hc) BY <1>1, <2>1, <2>3, <2>4, HeadObjectFits
  <2>6. DiskOK(u.file) /\ DOMAIN u.file = LiveFiles
    <3>1. s \in 0 .. 2 BY WorldsKnown DEF TypeOK, World
    <3> HIDE DEF f
    <3>2. u.file = o.file \/ u.file = [o.file EXCEPT ![f].pending = TRUE] \/ u.file = [o.file EXCEPT ![f].data = 0]
      BY <2>2, <3>1 DEF AfterUpload
    <3>3. CASE u.file = o.file BY <3>3, <1>6
    <3>4. CASE u.file = [o.file EXCEPT ![f].pending = TRUE]
      <4>1. f \in DOMAIN o.file /\ TRUE \in BOOLEAN BY <1>1, <1>6 DEF f
      <4>2. LET g == [o.file EXCEPT ![f].pending = TRUE] IN DiskOK(g) /\ DOMAIN g = DOMAIN o.file
        BY <4>1, <1>6, DiskEdits
      <4> QED BY <3>4, <4>2, <1>6
    <3>5. CASE u.file = [o.file EXCEPT ![f].data = 0] BY <3>5, <1>1, <1>6, DiskEdits
    <3> QED BY <3>2, <3>3, <3>4, <3>5
  <2> QED BY <2>2, <2>3, <2>5, <2>6 DEF Looked, Uploaded
<1> QED BY <1>5, <1>8, <1>9
------------------------------------------------------------------------------
(* Every callback keeps the types.                                         *)

(* A callback that changes no context and no file, only what is looked up. *)
LEMMA LookedType ==
  ASSUME TypeOK, NEW p \in Paths, NEW o, Looked(o, p, headCache),
         headCache' = o.cache, Heap(o.heap), mOpen' \in {mOpen, Release(mOpen, p)},
         UNCHANGED <<remote, cacheAt, file, ctx, deleting, truth, clock, world>>
  PROVE  TypeOK'
<1>1. /\ remote \in Buckets /\ cacheAt \in [Paths -> Files \cup {NULL}]
      /\ DOMAIN file = LiveFiles /\ DiskOK(file) /\ mOpen \in Tables /\ ContextsOK(ctx)
      /\ deleting \subseteq Paths /\ truth \in [Paths -> Nat \cup {NULL}] /\ clock \in Nat /\ world \in Worlds
  BY TypesApart
<1>2. mOpen' \in Tables BY <1>1, TableFits
<1>3. EntriesIn(mOpen, headCache, ctx, LiveEntries) BY Pointed
<1>4. \A q \in Paths : mOpen'[q].entry \in {mOpen[q].entry, NULL}
  BY <1>1 DEF Release, Unregistered, Tables
<1>5. EntriesIn(mOpen', headCache', ctx', DOMAIN o.heap)
  BY <1>3, <1>4 DEF Looked, EntriesIn
<1>6. DOMAIN heap' = LiveEntries' /\ HeapOK(heap') BY <1>5, HeapStays DEF Looked
<1>7. LiveFiles' = LiveFiles BY DEF LiveFiles
<1> QED BY <1>1, <1>2, <1>6, <1>7, TypesAfter DEF Looked

LEMMA LookedHere ==
  ASSUME TypeOK, NEW p \in Paths, NEW o \in HeadObject(p, remote, headCache, heap)
  PROVE  Looked(o, p, headCache)
<1>1. remote \in Buckets /\ headCache \in HeadCaches BY TypesApart
<1> QED BY <1>1, HeadObjectFits

LEMMA KnownHere ==
  ASSUME TypeOK, NEW p \in Paths, mOpen[p] # Unregistered, NEW o,
         o = [entry |-> mOpen[p].entry, cache |-> headCache, heap |-> heap]
  PROVE  /\ o.cache \in HeadCaches /\ HeapOK(o.heap) /\ DOMAIN o.heap = LiveEntries
         /\ EntriesIn(mOpen, headCache, ctx, LiveEntries)
         /\ o.entry \in LiveEntries /\ o.entry # NULL
<1>1. mOpen \in Tables /\ headCache \in HeadCaches /\ HeapOK(heap) /\ DOMAIN heap = LiveEntries
  BY TypesApart
<1>2. mOpen[p].entry \in Entries BY <1>1, TableFits
<1> QED BY <1>1, <1>2, Pointed, NullIsNoObject DEF EntriesIn

LEMMA LookUpType ==
  ASSUME TypeOK, NEW p \in Paths, LookUp(p), UNCHANGED world
  PROVE  TypeOK'
<1>1. PICK o \in HeadObject(p, remote, headCache, heap) :
        /\ headCache' = o.cache
        /\ UNCHANGED <<remote, cacheAt, file, mOpen, ctx, deleting, truth, clock>>
        /\ Heap(o.heap)
  BY DEF LookUp
<1>2. Looked(o, p, headCache) BY LookedHere
<1> QED BY <1>1, <1>2, LookedType

LEMMA ExpireType ==
  ASSUME TypeOK, NEW p \in Paths, Expire(p) \/ StoredElsewhere(p), UNCHANGED world
  PROVE  TypeOK'
<1>1. /\ remote \in Buckets /\ cacheAt \in [Paths -> Files \cup {NULL}]
      /\ DOMAIN file = LiveFiles /\ DiskOK(file) /\ mOpen \in Tables /\ ContextsOK(ctx)
      /\ deleting \subseteq Paths /\ truth \in [Paths -> Nat \cup {NULL}] /\ clock \in Nat /\ world \in Worlds
      /\ headCache \in HeadCaches /\ DOMAIN heap = LiveEntries /\ HeapOK(heap)
  BY TypesApart
<1>2. /\ headCache' = [headCache EXCEPT ![p] = NULL] /\ Heap(heap)
      /\ UNCHANGED <<cacheAt, file, mOpen, ctx, deleting>>
  BY DEF Expire, StoredElsewhere
<1>3. EntriesIn(mOpen, headCache, ctx, LiveEntries) BY Pointed
<1>4. headCache' \in HeadCaches BY <1>1, <1>2 DEF HeadCaches
<1>5. \A q \in Paths : headCache'[q] \in {headCache[q], NULL} BY <1>1, <1>2 DEF HeadCaches
<1>6. EntriesIn(mOpen', headCache', ctx', DOMAIN heap) BY <1>1, <1>2, <1>3, <1>5 DEF EntriesIn
<1>7. DOMAIN heap' = LiveEntries' /\ HeapOK(heap') BY <1>1, <1>2, <1>6, HeapStays
<1>8. LiveFiles' = LiveFiles BY <1>2 DEF LiveFiles
<1>9. remote' \in Buckets /\ truth' \in [Paths -> Nat \cup {NULL}] /\ clock' \in Nat
  <2>1. CASE Expire(p) BY <1>1, <2>1 DEF Expire
  <2>2. CASE StoredElsewhere(p)
    <3>1. clock' \in Nat /\ [data |-> clock', stamp |-> clock'] \in Object
      BY <1>1, <2>2 DEF StoredElsewhere, Object
    <3> QED BY <3>1, <1>1, <2>2 DEF StoredElsewhere, Buckets
  <2> QED BY <2>1, <2>2
<1> QED BY <1>1, <1>2, <1>4, <1>7, <1>8, <1>9, TypesAfter

LEMMA NewContextFits ==
  ASSUME TypeOK, NEW c \in Contexts, NEW p \in Paths, NEW e \in Entries, NEW f \in Files,
         NEW created \in BOOLEAN, NEW doc \in BOOLEAN, NewContext(c, p, e, f, created, doc)
  PROVE  /\ ContextsOK(ctx')
         /\ ctx'[c] = [state |-> "open", path |-> p, name |-> p, entry |-> e, handle |-> f,
                       modify |-> created, deleteOnClose |-> doc]
         /\ \A d \in Contexts \ {c} : ctx'[d] = ctx[d]
<1> DEFINE k == [state |-> "open", path |-> p, name |-> p, entry |-> e, handle |-> f,
                 modify |-> created, deleteOnClose |-> doc]
<1>1. ContextsOK(ctx) BY TypesApart
<1>2. ctx' = [ctx EXCEPT ![c] = k] BY DEF NewContext
<1>3. ContextOK(k) BY NullIsNoObject DEF ContextOK, Context
<1> HIDE DEF k
<1>4. ctx'[c] = k /\ \A d \in Contexts \ {c} : ctx'[d] = ctx[d] BY <1>1, <1>2 DEF ContextsOK
<1>5. ContextsOK(ctx') BY <1>1, <1>2, <1>3, <1>4 DEF ContextsOK
<1> QED BY <1>4, <1>5 DEF k

(* A callback that gives c a handle f and the entry e.                     *)
LEMMA EnteredType ==
  ASSUME TypeOK, NEW c \in Contexts, NEW p \in Paths, NEW e, NEW f \in Files, NEW hh, NEW v \in File,
         NEW created \in BOOLEAN, NEW doc \in BOOLEAN, NewContext(c, p, e, f, created, doc),
         cacheAt' = [cacheAt EXCEPT ![p] = f], Disk(With(file, f, v)),
         mOpen' \in Tables, \A q \in Paths : mOpen'[q].entry \in {mOpen[q].entry, e},
         headCache' \in HeadCaches, \A q \in Paths : headCache'[q] \in DOMAIN hh \cup {NULL, ABSENT},
         HeapOK(hh), LiveEntries \subseteq DOMAIN hh, e \in Entries, e \in DOMAIN hh, Heap(hh),
         truth' \in [Paths -> Nat \cup {NULL}], clock' \in Nat,
         UNCHANGED <<remote, deleting, world>>
  PROVE  TypeOK'
<1>1. /\ remote \in Buckets /\ cacheAt \in [Paths -> Files \cup {NULL}]
      /\ DOMAIN file = LiveFiles /\ DiskOK(file)
      /\ deleting \subseteq Paths /\ world \in Worlds
  BY TypesApart
<1>2. ContextsOK(ctx') /\ ctx'[c].entry = e /\ ctx'[c].handle = f /\ \A d \in Contexts \ {c} : ctx'[d] = ctx[d]
  <2>1. /\ ContextsOK(ctx')
        /\ ctx'[c] = [state |-> "open", path |-> p, name |-> p, entry |-> e, handle |-> f,
                      modify |-> created, deleteOnClose |-> doc]
        /\ \A d \in Contexts \ {c} : ctx'[d] = ctx[d]
    BY NewContextFits
  <2> QED BY <2>1
<1>3. EntriesIn(mOpen, headCache, ctx, LiveEntries) /\ FilesIn(cacheAt, ctx, LiveFiles) BY Pointed
<1>4. EntriesIn(mOpen', headCache', ctx', DOMAIN hh)
  BY <1>2, <1>3 DEF EntriesIn
<1>5. DOMAIN heap' = LiveEntries' /\ HeapOK(heap') BY <1>4, HeapStays
<1>6. \A q \in Paths : cacheAt'[q] \in {cacheAt[q], f} BY <1>1
<1>7. FilesIn(cacheAt', ctx', LiveFiles \cup {f}) BY <1>2, <1>3, <1>6 DEF FilesIn
<1>8. DiskOK(With(file, f, v)) /\ DOMAIN With(file, f, v) = LiveFiles \cup {f}
  BY <1>1 DEF With, DiskOK
<1>9. DOMAIN file' = LiveFiles' /\ DiskOK(file') BY <1>7, <1>8, DiskStays
<1>10. cacheAt' \in [Paths -> Files \cup {NULL}] BY <1>1
<1> QED BY <1>1, <1>2, <1>5, <1>9, <1>10, TypesAfter

LEMMA CacheFileFits ==
  ASSUME TypeOK, NEW p \in Paths
  PROVE  CacheFile(p) \in Files /\ CacheFile(p) # NULL
  BY FileLeft, NullIsNoObject DEF CacheFile, TypeOK

LEMMA CanCreateGives ==
  ASSUME TypeOK, NEW p \in Paths, NEW o \in CanCreateObject(p)
  PROVE  \/ mOpen[p] = Unregistered /\ Looked(o, p, headCache) /\ DOMAIN o.heap \subseteq Entries
         \/ mOpen[p] # Unregistered /\ o = [entry |-> mOpen[p].entry, cache |-> headCache, heap |-> heap]
<1>1. CASE mOpen[p] = Unregistered
  <2>1. o \in HeadObject(p, remote, headCache, heap) BY <1>1 DEF CanCreateObject
  <2>2. Looked(o, p, headCache) BY <2>1, LookedHere
  <2> QED BY <1>1, <2>2, EntryLeft DEF Looked
<1>2. CASE mOpen[p] # Unregistered BY <1>2 DEF CanCreateObject
<1> QED BY <1>1, <1>2

(* Open, Create and Rename that give up after the lookup.                  *)
LEMMA RefusedType ==
  ASSUME TypeOK, NEW p \in Paths, NEW o \in CanCreateObject(p),
         headCache' = o.cache, Heap(o.heap),
         UNCHANGED <<remote, cacheAt, file, mOpen, ctx, deleting, truth, clock, world>>
  PROVE  TypeOK'
<1>1. CASE Looked(o, p, headCache) BY <1>1, LookedType
<1>2. CASE o = [entry |-> mOpen[p].entry, cache |-> headCache, heap |-> heap]
  <2>1. headCache' = headCache /\ Heap(heap) BY <1>2
  <2>2. LiveEntries' = LiveEntries BY <2>1 DEF LiveEntries
  <2>3. LiveFiles' = LiveFiles BY DEF LiveFiles
  <2>4. DOMAIN heap = LiveEntries /\ HeapOK(heap) BY TypesApart
  <2>5. heap' = heap BY <2>1, <2>2, <2>4 DEF Heap, Restrict, HeapOK
  <2> QED BY <2>1, <2>2, <2>3, <2>5 DEF TypeOK, InUse, IsOpen
<1> QED BY <1>1, <1>2, CanCreateGives

LEMMA OpenType ==
  ASSUME TypeOK, NEW c \in Contexts, NEW p \in Paths, NEW doc \in BOOLEAN, Open(c, p, doc), UNCHANGED world
  PROVE  TypeOK'
<1>1. PICK o \in CanCreateObject(p) :
        /\ headCache' = o.cache
        /\ IF o.entry = NULL \/ Blocked(p)
           THEN UNCHANGED <<cacheAt, file, mOpen, ctx>>
           ELSE LET f == CacheFile(p) IN
                /\ cacheAt' = [cacheAt EXCEPT ![p] = f]
                /\ NewContext(c, p, o.entry, f, FALSE, doc)
                /\ mOpen' = IF mOpen[p] = Unregistered THEN Register(mOpen, p, o.entry)
                            ELSE Acquire(mOpen, p)
                /\ Disk(With(file, f, SyncAttributes(f, o.heap[o.entry])))
        /\ Heap(o.heap)
  BY DEF Open, CanCreateObject
<1>2. UNCHANGED <<remote, deleting, truth, clock>> BY DEF Open
<1>3. mOpen \in Tables /\ DOMAIN file = LiveFiles /\ DiskOK(file) /\ headCache \in HeadCaches
      /\ HeapOK(heap) /\ DOMAIN heap = LiveEntries /\ truth \in [Paths -> Nat \cup {NULL}] /\ clock \in Nat
  BY TypesApart
<1>4. CASE o.entry = NULL \/ Blocked(p)
  BY <1>1, <1>2, <1>4, RefusedType
<1>5. CASE ~(o.entry = NULL \/ Blocked(p))
  <2> DEFINE f == CacheFile(p)
             v == SyncAttributes(f, o.heap[o.entry])
  <2>1. /\ cacheAt' = [cacheAt EXCEPT ![p] = f]
        /\ NewContext(c, p, o.entry, f, FALSE, doc)
        /\ mOpen' = IF mOpen[p] = Unregistered THEN Register(mOpen, p, o.entry) ELSE Acquire(mOpen, p)
        /\ Disk(With(file, f, v))
    BY <1>1, <1>5
  <2>2. f \in Files BY CacheFileFits
  <2>3. /\ HeapOK(o.heap) /\ LiveEntries \subseteq DOMAIN o.heap /\ o.entry \in DOMAIN o.heap
        /\ \A q \in Paths : headCache'[q] \in DOMAIN o.heap \cup {NULL, ABSENT}
        /\ headCache' \in HeadCaches /\ o.entry \in Entries
    <3>1. CASE Looked(o, p, headCache) /\ DOMAIN o.heap \subseteq Entries
      BY <1>1, <1>5, <3>1 DEF Looked
    <3>2. CASE mOpen[p] # Unregistered /\ o = [entry |-> mOpen[p].entry, cache |-> headCache, heap |-> heap]
      <4>1. /\ o.cache \in HeadCaches /\ HeapOK(o.heap) /\ DOMAIN o.heap = LiveEntries
            /\ EntriesIn(mOpen, headCache, ctx, LiveEntries)
            /\ o.entry \in LiveEntries /\ o.entry # NULL
        BY <3>2, KnownHere
      <4>2. o.cache = headCache BY <3>2
      <4> QED BY <1>1, <4>1, <4>2, EntryLeft DEF EntriesIn
    <3> QED BY <3>1, <3>2, CanCreateGives
  <2>4. v \in File
    <3>1. o.heap[o.entry] \in Entry BY <2>3 DEF HeapOK
    <3>2. f \in DOMAIN file => file[f] \in File BY <1>3 DEF DiskOK
    <3> HIDE DEF f
    <3> QED BY <3>1, <3>2 DEF SyncAttributes, File, Entry
  <2>5. mOpen' \in Tables /\ \A q \in Paths : mOpen'[q].entry \in {mOpen[q].entry, o.entry}
    <3>1. CASE mOpen[p] = Unregistered
      <4>1. mOpen' = [mOpen EXCEPT ![p] = [entry |-> o.entry, ref |-> 1]] BY <2>1, <3>1 DEF Register
      <4>2. mOpen' \in Tables BY <1>3, <2>1, <2>3, <3>1, TableFits
      <4> QED BY <1>3, <4>1, <4>2 DEF Tables
    <3>2. CASE mOpen[p] # Unregistered
      <4>1. mOpen' = [mOpen EXCEPT ![p].ref = mOpen[p].ref + 1] BY <2>1, <3>2 DEF Acquire
      <4>2. mOpen' \in Tables BY <1>3, <2>1, <3>2, TableFits
      <4>3. mOpen[p] \in [entry : Entries, ref : Nat \ {0}] BY <1>3, <3>2 DEF Tables, Registration
      <4> QED BY <1>3, <4>1, <4>2, <4>3 DEF Tables
    <3> QED BY <3>1, <3>2
  <2>6. FALSE \in BOOLEAN OBVIOUS
  <2> HIDE DEF f, v
  <2>7. truth' \in [Paths -> Nat \cup {NULL}] /\ clock' \in Nat BY <1>2, <1>3
  <2> QED BY <1>1, <1>2, <2>1, <2>2, <2>3, <2>4, <2>5, <2>6, <2>7, EnteredType
<1> QED BY <1>4, <1>5

LEMMA CreateType ==
  ASSUME TypeOK, NEW c \in Contexts, NEW p \in Paths, NEW doc \in BOOLEAN, Create(c, p, doc), UNCHANGED world
  PROVE  TypeOK'
<1>1. PICK o \in CanCreateObject(p) :
        /\ headCache' = o.cache
        /\ IF o.entry # NULL \/ Blocked(p)
           THEN /\ UNCHANGED <<cacheAt, file, mOpen, ctx, truth, clock>>
                /\ Heap(o.heap)
           ELSE LET f == CacheFile(p) IN
                /\ clock' = clock + 1
                /\ cacheAt' = [cacheAt EXCEPT ![p] = f]
                /\ NewContext(c, p, NewEntry, f, TRUE, doc)
                /\ mOpen' = Register(mOpen, p, NewEntry)
                /\ truth' = [truth EXCEPT ![p] = 0]
                /\ Disk(With(file, f, [data |-> 0, stamp |-> clock', pending |-> FALSE]))
                /\ Heap(With(o.heap, NewEntry, [stamp |-> clock', sized |-> FALSE]))
  BY DEF Create
<1>2. UNCHANGED <<remote, deleting>> BY DEF Create
<1>3. mOpen \in Tables /\ HeapOK(heap) /\ DOMAIN heap = LiveEntries
      /\ truth \in [Paths -> Nat \cup {NULL}] /\ clock \in Nat
  BY TypesApart
<1>4. CASE o.entry # NULL \/ Blocked(p)
  BY <1>1, <1>2, <1>4, RefusedType
<1>5. CASE ~(o.entry # NULL \/ Blocked(p))
  <2> DEFINE f == CacheFile(p)
             v == [data |-> 0, stamp |-> clock', pending |-> FALSE]
             hh == With(o.heap, NewEntry, [stamp |-> clock', sized |-> FALSE])
  <2>1. /\ clock' = clock + 1
        /\ cacheAt' = [cacheAt EXCEPT ![p] = f]
        /\ NewContext(c, p, NewEntry, f, TRUE, doc)
        /\ mOpen' = Register(mOpen, p, NewEntry)
        /\ truth' = [truth EXCEPT ![p] = 0]
        /\ Disk(With(file, f, v))
        /\ Heap(hh)
    BY <1>1, <1>5
  <2>2. f \in Files /\ NewEntry \in Entries BY CacheFileFits, EntryLeft
  <2>3. Looked(o, p, headCache) /\ DOMAIN o.heap \subseteq Entries
    <3>1. mOpen[p] # Unregistered => mOpen[p].entry # NULL BY <1>3, TableFits, NullIsNoObject
    <3> QED BY <1>5, <3>1, CanCreateGives
  <2>4. clock' \in Nat /\ truth' \in [Paths -> Nat \cup {NULL}] BY <1>3, <2>1
  <2>5. /\ HeapOK(hh) /\ DOMAIN hh = DOMAIN o.heap \cup {NewEntry}
    <3>1. [stamp |-> clock', sized |-> FALSE] \in Entry BY <2>4 DEF Entry
    <3> QED BY <2>3, <3>1 DEF With, HeapOK, Looked
  <2>6. /\ LiveEntries \subseteq DOMAIN hh /\ NewEntry \in DOMAIN hh
        /\ \A q \in Paths : headCache'[q] \in DOMAIN hh \cup {NULL, ABSENT}
        /\ headCache' \in HeadCaches
    <3> HIDE DEF hh
    <3> QED BY <1>1, <2>3, <2>5 DEF Looked
  <2>7. v \in File BY <2>4 DEF File
  <2>8. mOpen' \in Tables /\ \A q \in Paths : mOpen'[q].entry \in {mOpen[q].entry, NewEntry}
    <3>1. mOpen' = [mOpen EXCEPT ![p] = [entry |-> NewEntry, ref |-> 1]] BY <2>1 DEF Register
    <3>2. mOpen' \in Tables BY <1>3, <2>1, <2>2, TableFits
    <3> QED BY <1>3, <3>1, <3>2 DEF Tables
  <2>9. TRUE \in BOOLEAN OBVIOUS
  <2> HIDE DEF f, v, hh
  <2> QED BY <1>2, <2>1, <2>2, <2>4, <2>5, <2>6, <2>7, <2>8, <2>9, EnteredType
<1> QED BY <1>4, <1>5

(* A callback that works on the file of an open context in place.          *)
LEMMA InPlaceType ==
  ASSUME TypeOK, NEW c \in Contexts, IsOpen(c), ctx' = ctx \/ ctx' = [ctx EXCEPT ![c].modify = TRUE],
         UNCHANGED <<remote, cacheAt, mOpen, headCache, deleting, world>>,
         DiskOK(file'), DOMAIN file' = LiveFiles, HeapOK(heap'), DOMAIN heap' = LiveEntries,
         truth' \in [Paths -> Nat \cup {NULL}], clock' \in Nat
  PROVE  TypeOK'
<1>1. /\ remote \in Buckets /\ cacheAt \in [Paths -> Files \cup {NULL}]
      /\ mOpen \in Tables /\ ContextsOK(ctx) /\ headCache \in HeadCaches
      /\ deleting \subseteq Paths /\ world \in Worlds
  BY TypesApart
<1>2. ContextOK([ctx[c] EXCEPT !.modify = TRUE])
  BY <1>1 DEF ContextsOK, ContextOK, Context, NoContext, IsOpen
<1>3. ContextsOK(ctx') /\ \A d \in Contexts : ctx'[d].entry = ctx[d].entry /\ ctx'[d].handle = ctx[d].handle
  <2>1. CASE ctx' = ctx BY <1>1, <2>1
  <2>2. CASE ctx' = [ctx EXCEPT ![c].modify = TRUE]
    <3>1. ctx' = [ctx EXCEPT ![c] = [ctx[c] EXCEPT !.modify = TRUE]] BY <2>2
    <3>2. ctx[c] \in Context BY <1>1 DEF ContextsOK, ContextOK
    <3> QED BY <1>1, <1>2, <3>1, <3>2 DEF ContextsOK, Context
  <2> QED BY <2>1, <2>2
<1>4. LiveEntries' = LiveEntries /\ LiveFiles' = LiveFiles
  BY <1>3 DEF LiveEntries, LiveFiles
<1> QED BY <1>1, <1>3, <1>4, TypesAfter

LEMMA InfoFits ==
  ASSUME TypeOK, NEW c \in Contexts, IsOpen(c), NEW fs, DiskOK(fs), DOMAIN fs = LiveFiles,
         NEW aware \in BOOLEAN
  PROVE  /\ HeapOK(UpdateFileInfo(c, fs, aware)) /\ DOMAIN UpdateFileInfo(c, fs, aware) = LiveEntries
         /\ ctx[c].entry \in LiveEntries /\ ctx[c].handle \in LiveFiles
         /\ \A e \in LiveEntries : UpdateFileInfo(c, fs, aware)[e] =
              IF e = ctx[c].entry
              THEN [stamp |-> fs[ctx[c].handle].stamp,
                    sized |-> fs[ctx[c].handle].data # 0 \/ (aware /\ heap[e].sized)]
              ELSE heap[e]
<1>1. ctx[c].handle \in LiveFiles /\ ctx[c].entry \in LiveEntries
  BY Pointed, NullIsNoObject DEF FilesIn, EntriesIn, TypeOK, InUse, IsOpen
<1>2. DOMAIN heap = LiveEntries /\ HeapOK(heap) BY TypesApart
<1>3. heap[ctx[c].entry].sized \in BOOLEAN /\ fs[ctx[c].handle].stamp \in Nat
  BY <1>1, <1>2 DEF HeapOK, DiskOK, Entry, File
<1> DEFINE n == [stamp |-> fs[ctx[c].handle].stamp,
                 sized |-> fs[ctx[c].handle].data # 0 \/ (aware /\ heap[ctx[c].entry].sized)]
<1>4. n \in Entry BY <1>3 DEF Entry
<1>5. UpdateFileInfo(c, fs, aware) = [heap EXCEPT ![ctx[c].entry] = n] BY DEF UpdateFileInfo
<1> HIDE DEF n
<1>6. HeapOK(UpdateFileInfo(c, fs, aware)) /\ DOMAIN UpdateFileInfo(c, fs, aware) = LiveEntries
  BY <1>1, <1>2, <1>4, <1>5 DEF HeapOK
<1>7. \A e \in LiveEntries : UpdateFileInfo(c, fs, aware)[e] = IF e = ctx[c].entry THEN n ELSE heap[e]
  BY <1>1, <1>2, <1>5
<1> QED BY <1>1, <1>6, <1>7 DEF n

LEMMA StoredType ==
  ASSUME TypeOK, NEW c \in Contexts, IsOpen(c), NEW n \in Nat, Stored(c, n)
  PROVE  truth' \in [Paths -> Nat \cup {NULL}]
  BY DEF Stored, TypeOK

LEMMA WorkType ==
  ASSUME TypeOK, NEW c \in Contexts, UNCHANGED world,
         Read(c) \/ Write(c) \/ Truncate(c) \/ SetBasicInfo(c) \/ Flush(c)
  PROVE  TypeOK'
<1>0. IsOpen(c) BY DEF Read, Write, Truncate, SetBasicInfo, Flush
<1>1. InUse(c) /\ ctx[c].handle # NULL BY <1>0 DEF TypeOK, InUse, IsOpen
<1>2. ctx[c].handle \in LiveFiles BY <1>1, Pointed DEF FilesIn
<1>3. /\ DOMAIN file = LiveFiles /\ DiskOK(file) /\ HeapOK(heap) /\ DOMAIN heap = LiveEntries
      /\ truth \in [Paths -> Nat \cup {NULL}] /\ clock \in Nat
  BY TypesApart
<1>4. TRUE \in BOOLEAN /\ FALSE \in BOOLEAN /\ 0 \in Nat OBVIOUS
<1>5. CASE Read(c)
  <2>1. DiskOK(file') /\ DOMAIN file' = LiveFiles BY <1>1, <1>5, SyncContentFits DEF Read
  <2> QED BY <1>0, <1>3, <1>5, <2>1, InPlaceType DEF Read
<1>6. CASE Write(c)
  <2>1. UNCHANGED <<remote, cacheAt, mOpen, headCache, deleting>> BY <1>6 DEF Write
  <2>2. PICK o \in SyncContent(c) :
       IF o.ok
       THEN LET fs == [o.file EXCEPT ![ctx[c].handle].data = clock', ![ctx[c].handle].stamp = clock']
            IN /\ clock' = clock + 1
               /\ file' = fs
               /\ heap' = UpdateFileInfo(c, fs, TRUE)
               /\ ctx' = [ctx EXCEPT ![c].modify = TRUE]
               /\ Stored(c, clock')
       ELSE UNCHANGED <<file, heap, ctx, truth, clock>>
    BY <1>6 DEF Write
  <2>3. DiskOK(o.file) /\ DOMAIN o.file = LiveFiles BY <1>1, SyncContentFits
  <2>4. CASE o.ok
    <3>1. /\ clock' = clock + 1
          /\ file' = [o.file EXCEPT ![ctx[c].handle].data = clock', ![ctx[c].handle].stamp = clock']
          /\ heap' = UpdateFileInfo(c, file', TRUE)
          /\ ctx' = [ctx EXCEPT ![c].modify = TRUE]
          /\ Stored(c, clock')
      BY <2>2, <2>4
    <3>2. clock' \in Nat BY <1>3, <3>1
    <3>3. DiskOK(file') /\ DOMAIN file' = LiveFiles
      <4> DEFINE g == [o.file EXCEPT ![ctx[c].handle].data = clock']
      <4>1. DiskOK(g) /\ DOMAIN g = LiveFiles BY <1>2, <2>3, <3>2, DiskEdits
      <4>2. file' = [g EXCEPT ![ctx[c].handle].stamp = clock'] BY <3>1
      <4> HIDE DEF g
      <4> QED BY <1>2, <3>2, <4>1, <4>2, DiskEdits
    <3>4. HeapOK(heap') /\ DOMAIN heap' = LiveEntries BY <1>0, <1>4, <3>1, <3>3, InfoFits
    <3>5. truth' \in [Paths -> Nat \cup {NULL}] BY <1>0, <3>1, <3>2, StoredType
    <3> QED BY <1>0, <2>1, <3>1, <3>2, <3>3, <3>4, <3>5, InPlaceType
  <2>5. CASE ~o.ok
    <3>1. UNCHANGED <<file, heap, ctx, truth, clock>> BY <2>2, <2>5
    <3> QED BY <1>0, <1>3, <2>1, <3>1, InPlaceType
  <2> QED BY <2>4, <2>5
<1>7. CASE Truncate(c)
  <2>1. /\ clock' = clock + 1
        /\ file' = [file EXCEPT ![ctx[c].handle].data = 0, ![ctx[c].handle].stamp = clock']
        /\ heap' = UpdateFileInfo(c, file', FALSE)
        /\ ctx' = [ctx EXCEPT ![c].modify = TRUE]
        /\ Stored(c, 0)
        /\ UNCHANGED <<remote, cacheAt, mOpen, headCache, deleting>>
    BY <1>7 DEF Truncate
  <2>2. clock' \in Nat BY <1>3, <2>1
  <2>3. DiskOK(file') /\ DOMAIN file' = LiveFiles
    <3> DEFINE g == [file EXCEPT ![ctx[c].handle].data = 0]
    <3>1. DiskOK(g) /\ DOMAIN g = LiveFiles BY <1>2, <1>3, <1>4, DiskEdits
    <3>2. file' = [g EXCEPT ![ctx[c].handle].stamp = clock'] BY <2>1
    <3> HIDE DEF g
    <3> QED BY <1>2, <2>2, <3>1, <3>2, DiskEdits
  <2>4. HeapOK(heap') /\ DOMAIN heap' = LiveEntries BY <1>0, <1>4, <2>1, <2>3, InfoFits
  <2>5. truth' \in [Paths -> Nat \cup {NULL}] BY <1>0, <1>4, <2>1, StoredType
  <2> QED BY <1>0, <2>1, <2>2, <2>3, <2>4, <2>5, InPlaceType
<1>8. CASE SetBasicInfo(c)
  <2>1. /\ clock' = clock + 1
        /\ file' = [file EXCEPT ![ctx[c].handle].stamp = clock']
        /\ heap' = UpdateFileInfo(c, file', TRUE)
        /\ ctx' = [ctx EXCEPT ![c].modify = TRUE]
        /\ UNCHANGED <<remote, cacheAt, mOpen, headCache, deleting, truth>>
    BY <1>8 DEF SetBasicInfo
  <2>2. clock' \in Nat BY <1>3, <2>1
  <2>3. DiskOK(file') /\ DOMAIN file' = LiveFiles BY <1>2, <1>3, <2>1, <2>2, DiskEdits
  <2>4. HeapOK(heap') /\ DOMAIN heap' = LiveEntries BY <1>0, <1>4, <2>1, <2>3, InfoFits
  <2> QED BY <1>0, <1>3, <2>1, <2>2, <2>3, <2>4, InPlaceType
<1>9. CASE Flush(c)
  <2>1. /\ heap' = UpdateFileInfo(c, file, TRUE)
        /\ UNCHANGED <<remote, cacheAt, file, mOpen, headCache, ctx, deleting, truth, clock>>
    BY <1>9 DEF Flush
  <2>2. HeapOK(heap') /\ DOMAIN heap' = LiveEntries BY <1>0, <1>3, <1>4, <2>1, InfoFits
  <2> QED BY <1>0, <1>3, <2>1, <2>2, InPlaceType
<1> QED BY <1>5, <1>6, <1>7, <1>8, <1>9

LEMMA SetDeleteType ==
  ASSUME TypeOK, NEW c \in Contexts, SetDelete(c), UNCHANGED world
  PROVE  TypeOK'
<1>1. /\ remote \in Buckets /\ cacheAt \in [Paths -> Files \cup {NULL}]
      /\ DOMAIN file = LiveFiles /\ DiskOK(file) /\ mOpen \in Tables /\ ContextsOK(ctx)
      /\ deleting \subseteq Paths /\ truth \in [Paths -> Nat \cup {NULL}] /\ clock \in Nat /\ world \in Worlds
      /\ headCache \in HeadCaches /\ DOMAIN heap = LiveEntries /\ HeapOK(heap)
  BY TypesApart
<1>2. /\ file' = [file EXCEPT ![ctx[c].handle].pending = TRUE]
      /\ UNCHANGED <<cacheAt, mOpen, ctx, clock>> /\ Heap(heap)
  BY DEF SetDelete
<1>3. ctx[c].handle \in LiveFiles /\ ctx[c].path \in Paths /\ ctx[c].name \in Paths
  BY Pointed DEF FilesIn, SetDelete, TypeOK, IsOpen, InUse, Context
<1>4. /\ remote' \in Buckets /\ deleting' \subseteq Paths /\ truth' \in [Paths -> Nat \cup {NULL}]
      /\ headCache' \in HeadCaches /\ \A q \in Paths : headCache'[q] \in {headCache[q], NULL}
  <2>1. CASE DeleteFails(ctx[c].path) /\ UNCHANGED <<deleting, truth>>
    BY <1>1, <1>3, <2>1 DEF DeleteFails, Buckets
  <2>2. CASE /\ Deleted(ctx[c].path) /\ deleting' = deleting \cup {ctx[c].name}
             /\ truth' = [truth EXCEPT ![ctx[c].name] = NULL]
    BY <1>1, <1>3, <2>2 DEF Deleted, Buckets, HeadCaches
  <2> QED BY <2>1, <2>2 DEF SetDelete
<1>5. DiskOK(file') /\ DOMAIN file' = LiveFiles
  <2>1. TRUE \in BOOLEAN OBVIOUS
  <2> QED BY <1>1, <1>2, <1>3, <2>1, DiskEdits
<1>6. EntriesIn(mOpen, headCache, ctx, LiveEntries) BY Pointed
<1>7. EntriesIn(mOpen', headCache', ctx', DOMAIN heap) BY <1>1, <1>2, <1>4, <1>6 DEF EntriesIn
<1>8. DOMAIN heap' = LiveEntries' /\ HeapOK(heap') BY <1>1, <1>2, <1>7, HeapStays
<1>9. LiveFiles' = LiveFiles BY <1>2 DEF LiveFiles
<1> QED BY <1>1, <1>2, <1>4, <1>5, <1>8, <1>9, TypesAfter

(* c's record k replaces c's; what it points to is what c pointed to.      *)
LEMMA ChangedContext ==
  ASSUME TypeOK, NEW c \in Contexts, NEW k, ContextOK(k), ctx' = [ctx EXCEPT ![c] = k]
  PROVE  ContextsOK(ctx') /\ ctx'[c] = k /\ \A d \in Contexts \ {c} : ctx'[d] = ctx[d]
<1>1. ContextsOK(ctx) BY TypesApart
<1> QED BY <1>1 DEF ContextsOK

LEMMA FreeIsOK == ContextOK(NoContext) /\ NoContext.entry = NULL /\ NoContext.handle = NULL /\ NoContext.state = "free"
  BY DEF ContextOK, NoContext, Context

LEMMA CleanedIsOK ==
  ASSUME TypeOK, NEW c \in Contexts, IsOpen(c)
  PROVE  /\ ContextOK([ctx[c] EXCEPT !.state = "cleaned"])
         /\ ContextOK([ctx[c] EXCEPT !.state = "cleaned", !.handle = NULL])
         /\ ctx[c].path \in Paths /\ ctx[c].name \in Paths /\ ctx[c].handle \in LiveFiles
         /\ ctx[c].entry \in LiveEntries /\ ctx[c].deleteOnClose \in BOOLEAN
         /\ ctx[c] \in Context
<1>1. ContextOK(ctx[c]) BY TypesApart DEF ContextsOK
<1>2. /\ ctx[c].handle \in LiveFiles /\ ctx[c].entry \in LiveEntries
      /\ ctx[c].path \in Paths /\ ctx[c].name \in Paths
  BY Pointed, NullIsNoObject DEF FilesIn, EntriesIn, TypeOK, InUse, IsOpen, Context
<1> QED BY <1>1, <1>2 DEF ContextOK, Context, IsOpen

LEMMA CleanupType ==
  ASSUME TypeOK, NEW c \in Contexts, Cleanup(c), UNCHANGED world
  PROVE  TypeOK'
<1> DEFINE n == ctx[c].name
           p == ctx[c].path
           disk == CloseHandle(c, cacheAt, file)
<1>0. IsOpen(c) /\ UNCHANGED clock /\ UNCHANGED world BY DEF Cleanup
<1>1. /\ remote \in Buckets /\ cacheAt \in [Paths -> Files \cup {NULL}]
      /\ DOMAIN file = LiveFiles /\ DiskOK(file) /\ mOpen \in Tables /\ ContextsOK(ctx)
      /\ deleting \subseteq Paths /\ truth \in [Paths -> Nat \cup {NULL}] /\ clock \in Nat /\ world \in Worlds
      /\ headCache \in HeadCaches /\ DOMAIN heap = LiveEntries /\ HeapOK(heap)
  BY TypesApart
<1>2. EntriesIn(mOpen, headCache, ctx, LiveEntries) /\ FilesIn(cacheAt, ctx, LiveFiles) BY Pointed
<1>3. truth' \in [Paths -> Nat \cup {NULL}] BY <1>1 DEF Cleanup
<1>4. CASE CleanupDelete(c)
  <2>1. /\ ctx' = [ctx EXCEPT ![c].state = "cleaned", ![c].handle = NULL]
        /\ cacheAt' = disk.at
        /\ mOpen' = Release(mOpen, p)
        /\ deleting' = deleting \ {n}
        /\ Disk(disk.file)
        /\ Heap(heap)
        /\ Deleted(p) \/ DeleteFails(p) \/ UNCHANGED <<remote, headCache>>
    BY <1>4 DEF CleanupDelete
  <2>2. ctx' = [ctx EXCEPT ![c] = [ctx[c] EXCEPT !.state = "cleaned", !.handle = NULL]] BY <2>1
  <2>3. /\ ContextsOK(ctx') /\ ctx'[c] = [ctx[c] EXCEPT !.state = "cleaned", !.handle = NULL]
        /\ \A d \in Contexts \ {c} : ctx'[d] = ctx[d]
    BY <1>0, <2>2, CleanedIsOK, ChangedContext
  <2>4. ctx'[c].entry = ctx[c].entry /\ ctx'[c].handle = NULL BY <1>0, <2>3, CleanedIsOK DEF Context
  <2>5. /\ DiskOK(disk.file) /\ DOMAIN disk.file = LiveFiles
        /\ disk.at \in [Paths -> Files \cup {NULL}] /\ \A q \in Paths : disk.at[q] \in {cacheAt[q], NULL}
    <3>1. ctx[c].handle \in DOMAIN file /\ ctx[c].deleteOnClose \in BOOLEAN BY <1>0, <1>1, CleanedIsOK
    <3> QED BY <1>1, <3>1, ClosedType
  <2> HIDE DEF disk
  <2>6. FilesIn(cacheAt', ctx', LiveFiles) BY <1>2, <2>1, <2>3, <2>4, <2>5 DEF FilesIn
  <2>7. DOMAIN file' = LiveFiles' /\ DiskOK(file') BY <2>1, <2>5, <2>6, DiskStays
  <2>8. remote' \in Buckets /\ headCache' \in HeadCaches /\ \A q \in Paths : headCache'[q] \in {headCache[q], NULL}
    BY <1>1, <2>1 DEF Deleted, DeleteFails, Buckets, HeadCaches
  <2>9. mOpen' \in Tables /\ \A q \in Paths : mOpen'[q].entry \in {mOpen[q].entry, NULL}
    <3>1. mOpen' \in Tables BY <1>0, <1>1, <2>1, CleanedIsOK, TableFits
    <3> QED BY <1>1, <2>1, <3>1 DEF Release, Unregistered, Tables
  <2>10. EntriesIn(mOpen', headCache', ctx', LiveEntries)
    BY <1>2, <2>3, <2>4, <2>8, <2>9 DEF EntriesIn
  <2>11. DOMAIN heap' = LiveEntries' /\ HeapOK(heap') BY <1>1, <2>1, <2>10, HeapStays
  <2>12. deleting' \subseteq Paths /\ cacheAt' \in [Paths -> Files \cup {NULL}] BY <1>1, <2>1, <2>5
  <2> QED BY <1>0, <1>1, <1>3, <2>3, <2>7, <2>8, <2>9, <2>11, <2>12, TypesAfter
<1>5. CASE /\ ctx' = [ctx EXCEPT ![c].state = "cleaned"]
           /\ deleting' = IF ctx[c].deleteOnClose THEN deleting \cup {n} ELSE deleting
           /\ UNCHANGED <<remote, cacheAt, file, heap, mOpen, headCache>>
  <2>1. ctx' = [ctx EXCEPT ![c] = [ctx[c] EXCEPT !.state = "cleaned"]] BY <1>5
  <2>2. /\ ContextsOK(ctx') /\ ctx'[c] = [ctx[c] EXCEPT !.state = "cleaned"]
        /\ \A d \in Contexts \ {c} : ctx'[d] = ctx[d]
    BY <1>0, <2>1, CleanedIsOK, ChangedContext
  <2>3. \A d \in Contexts : ctx'[d].entry = ctx[d].entry /\ ctx'[d].handle = ctx[d].handle
    <3>1. ctx[c] \in Context BY <1>0, CleanedIsOK
    <3>2. ctx'[c].entry = ctx[c].entry /\ ctx'[c].handle = ctx[c].handle
      BY <2>2, <3>1 DEF Context
    <3> QED BY <2>2, <3>2
  <2>4. LiveEntries' = LiveEntries /\ LiveFiles' = LiveFiles
    BY <1>5, <2>3 DEF LiveEntries, LiveFiles
  <2>5. deleting' \subseteq Paths BY <1>0, <1>1, <1>5, CleanedIsOK
  <2> QED BY <1>0, <1>1, <1>3, <1>5, <2>2, <2>4, <2>5, TypesAfter
<1> QED BY <1>4, <1>5 DEF Cleanup

LEMMA CloseType ==
  ASSUME TypeOK, NEW c \in Contexts, Close(c), UNCHANGED world
  PROVE  TypeOK'
<1> DEFINE results == IF ctx[c].handle # NULL /\ ctx[c].modify THEN UploadWhenClosing(c) ELSE {NotUploaded(file)}
           disk(u) == IF ctx[c].handle = NULL THEN [at |-> cacheAt, file |-> u.file]
                      ELSE CloseHandle(c, cacheAt, u.file)
<1>0. InUse(c) /\ UNCHANGED <<deleting, truth, clock, world>> BY DEF Close, InUse
<1>1. /\ remote \in Buckets /\ cacheAt \in [Paths -> Files \cup {NULL}]
      /\ DOMAIN file = LiveFiles /\ DiskOK(file) /\ mOpen \in Tables /\ ContextsOK(ctx)
      /\ deleting \subseteq Paths /\ truth \in [Paths -> Nat \cup {NULL}] /\ clock \in Nat /\ world \in Worlds
      /\ headCache \in HeadCaches /\ DOMAIN heap = LiveEntries /\ HeapOK(heap)
  BY TypesApart
<1>2. EntriesIn(mOpen, headCache, ctx, LiveEntries) /\ FilesIn(cacheAt, ctx, LiveFiles) BY Pointed
<1>3. PICK u \in results :
        /\ remote' = u.remote
        /\ headCache' = u.cache
        /\ mOpen' = Release(mOpen, ctx[c].path)
        /\ ctx' = [ctx EXCEPT ![c] = NoContext]
        /\ cacheAt' = disk(u).at
        /\ Disk(disk(u).file)
        /\ Heap(u.heap)
  BY DEF Close
<1>4. Uploaded(u)
  <2>1. CASE ctx[c].handle # NULL /\ ctx[c].modify BY <1>0, <1>3, <2>1, UploadFits
  <2>2. CASE u = NotUploaded(file) BY <1>1, <1>2, <2>2 DEF NotUploaded, Uploaded, EntriesIn
  <2> QED BY <1>3, <2>1, <2>2
<1>5. /\ ContextsOK(ctx') /\ ctx'[c].entry = NULL /\ ctx'[c].handle = NULL
      /\ \A d \in Contexts \ {c} : ctx'[d] = ctx[d]
  BY <1>3, FreeIsOK, ChangedContext
<1>6. ctx[c].path \in Paths /\ ctx[c].deleteOnClose \in BOOLEAN BY <1>0, <1>1 DEF ContextsOK, ContextOK, InUse, Context
<1>7. /\ DiskOK(disk(u).file) /\ DOMAIN disk(u).file = LiveFiles
      /\ disk(u).at \in [Paths -> Files \cup {NULL}] /\ \A q \in Paths : disk(u).at[q] \in {cacheAt[q], NULL}
  <2>1. CASE ctx[c].handle = NULL BY <1>1, <1>4, <2>1 DEF Uploaded
  <2>2. CASE ctx[c].handle # NULL
    <3>1. ctx[c].handle \in LiveFiles BY <1>2, <2>2 DEF FilesIn
    <3>2. disk(u) = CloseHandle(c, cacheAt, u.file) BY <2>2
    <3> HIDE DEF disk
    <3> QED BY <1>1, <1>4, <1>6, <3>1, <3>2, ClosedType DEF Uploaded
  <2> QED BY <2>1, <2>2
<1> HIDE DEF disk
<1>8. FilesIn(cacheAt', ctx', LiveFiles) BY <1>2, <1>3, <1>5, <1>7 DEF FilesIn
<1>9. DOMAIN file' = LiveFiles' /\ DiskOK(file') BY <1>3, <1>7, <1>8, DiskStays
<1>10. mOpen' \in Tables /\ \A q \in Paths : mOpen'[q].entry \in {mOpen[q].entry, NULL}
  <2>1. mOpen' \in Tables BY <1>1, <1>3, <1>6, TableFits
  <2> QED BY <1>1, <1>3, <2>1 DEF Release, Unregistered, Tables
<1>11. EntriesIn(mOpen', headCache', ctx', DOMAIN u.heap)
  BY <1>2, <1>3, <1>4, <1>5, <1>10 DEF EntriesIn, Uploaded
<1>12. DOMAIN heap' = LiveEntries' /\ HeapOK(heap') BY <1>3, <1>4, <1>11, HeapStays DEF Uploaded
<1>13. remote' \in Buckets /\ headCache' \in HeadCaches /\ cacheAt' \in [Paths -> Files \cup {NULL}]
  BY <1>3, <1>4, <1>7 DEF Uploaded
<1> QED BY <1>0, <1>1, <1>5, <1>9, <1>10, <1>12, <1>13, TypesAfter

(* Each way a rename may end after the source has been released.           *)
LEMMA RenameGives ==
  ASSUME NEW c \in Contexts, NEW q \in Paths, NEW o, RenameReleased(c, q, o)
  PROVE  LET p == ctx[c].path
             f == ctx[c].handle
             stopHere == mOpen' = Release(mOpen, p) /\ UNCHANGED <<ctx, truth>> /\ Heap(o.heap)
         IN \/ /\ remote[p] = NULL
               /\ headCache' = o.cache /\ UNCHANGED <<remote, cacheAt, file>> /\ stopHere
            \/ /\ remote[p] # NULL /\ May("copy")
               /\ remote' = remote \/ remote' = [remote EXCEPT ![q] = remote[p]]
               /\ headCache' = o.cache /\ UNCHANGED <<cacheAt, file>> /\ stopHere
            \/ /\ remote[p] # NULL /\ ~CanMove(f, q)
               /\ remote' = [remote EXCEPT ![q] = remote[p]]
               /\ headCache' = [o.cache EXCEPT ![p] = NULL, ![q] = NULL]
               /\ UNCHANGED <<cacheAt, file>> /\ stopHere
            \/ /\ remote[p] # NULL /\ CanMove(f, q) /\ May("delete")
               /\ \/ remote' = [remote EXCEPT ![q] = remote[p]]
                  \/ remote' = [remote EXCEPT ![q] = remote[p], ![p] = NULL]
               /\ headCache' = [o.cache EXCEPT ![p] = NULL, ![q] = NULL]
               /\ cacheAt' = Moved(f, q) /\ stopHere /\ Disk(file)
            \/ /\ remote[p] # NULL /\ CanMove(f, q)
               /\ remote' = [remote EXCEPT ![q] = remote[p], ![p] = NULL]
               /\ headCache' = [o.cache EXCEPT ![p] = NULL, ![q] = NULL]
               /\ cacheAt' = Moved(f, q)
               /\ ctx' = [d \in Contexts |->
                            IF d = c
                            THEN [ctx[d] EXCEPT !.path = q, !.name = q, !.entry = NewEntry]
                            ELSE IF IsOpen(d) /\ ctx[d].name = ctx[c].name
                                 THEN [ctx[d] EXCEPT !.name = q] ELSE ctx[d]]
               /\ mOpen' = Register(Release(mOpen, p), q, NewEntry)
               /\ truth' = [truth EXCEPT ![q] = truth[ctx[c].name], ![ctx[c].name] = NULL]
               /\ Disk(file)
               /\ Heap(With(o.heap, NewEntry, heap[ctx[c].entry]))
  BY DEF RenameReleased

LEMMA RenameType ==
  ASSUME TypeOK, NEW c \in Contexts, NEW q \in Paths, Rename(c, q), q # ctx[c].path, UNCHANGED world
  PROVE  TypeOK'
<1> DEFINE p == ctx[c].path
           f == ctx[c].handle
<1>0. IsOpen(c) /\ UNCHANGED <<deleting, clock, world>> BY DEF Rename
<1>1. /\ remote \in Buckets /\ cacheAt \in [Paths -> Files \cup {NULL}]
      /\ DOMAIN file = LiveFiles /\ DiskOK(file) /\ mOpen \in Tables /\ ContextsOK(ctx)
      /\ deleting \subseteq Paths /\ truth \in [Paths -> Nat \cup {NULL}] /\ clock \in Nat /\ world \in Worlds
      /\ headCache \in HeadCaches /\ DOMAIN heap = LiveEntries /\ HeapOK(heap)
  BY TypesApart
<1>2. EntriesIn(mOpen, headCache, ctx, LiveEntries) /\ FilesIn(cacheAt, ctx, LiveFiles) BY Pointed
<1>3. /\ p \in Paths /\ ctx[c].name \in Paths /\ f \in LiveFiles /\ ctx[c].entry \in LiveEntries
      /\ ctx[c] \in Context
  BY <1>0, CleanedIsOK
<1>4. LiveFiles \subseteq Files /\ NewEntry \in Entries /\ LiveEntries \subseteq Entries BY FileLeft, EntryLeft
<1>5. PICK o \in CanCreateObject(q) :
       IF o.entry # NULL \/ mOpen[p] = Unregistered
       THEN /\ headCache' = o.cache
            /\ UNCHANGED <<remote, cacheAt, file, mOpen, ctx, truth>>
            /\ Heap(o.heap)
       ELSE RenameReleased(c, q, o)
  BY DEF Rename
<1>6. CASE o.entry # NULL \/ mOpen[p] = Unregistered
  BY <1>0, <1>5, <1>6, RefusedType
<1>7. CASE RenameReleased(c, q, o) /\ o.entry = NULL
  <2>1. Looked(o, q, headCache) /\ DOMAIN o.heap \subseteq Entries
    <3>1. mOpen[q] # Unregistered => mOpen[q].entry # NULL BY <1>1, TableFits, NullIsNoObject
    <3> QED BY <1>7, <3>1, CanCreateGives
  <2>2. Release(mOpen, p) \in Tables /\ \A r \in Paths : Release(mOpen, p)[r].entry \in {mOpen[r].entry, NULL}
    <3>1. Release(mOpen, p) \in Tables BY <1>1, <1>3, TableFits
    <3> QED BY <1>1, <1>3, <3>1 DEF Release, Unregistered, Tables
  <2>3. headCache' \in HeadCaches /\ \A r \in Paths : headCache'[r] \in {o.cache[r], NULL}
    <3>1. o.cache \in HeadCaches BY <2>1 DEF Looked
    <3>2. headCache' = o.cache \/ headCache' = [o.cache EXCEPT ![p] = NULL, ![q] = NULL]
      BY <1>7 DEF RenameReleased
    <3> QED BY <1>3, <3>1, <3>2 DEF HeadCaches
  <2>4. Moved(f, q) \in [Paths -> Files \cup {NULL}] /\ \A r \in Paths : Moved(f, q)[r] \in {cacheAt[r], NULL, f}
    BY <1>1, <1>3, <1>4 DEF Moved
  <2>5. remote' \in Buckets
    <3>1. \/ remote' = remote \/ remote' = [remote EXCEPT ![q] = remote[p]]
          \/ remote' = [remote EXCEPT ![q] = remote[p], ![p] = NULL]
      BY <1>7, RenameGives
    <3> QED BY <1>1, <1>3, <3>1 DEF Buckets
  <2>6. CASE /\ mOpen' = Release(mOpen, p) /\ UNCHANGED <<ctx, truth>> /\ Heap(o.heap)
             /\ UNCHANGED <<cacheAt, file>> \/ (cacheAt' = Moved(f, q) /\ Disk(file))
    <3>1. EntriesIn(mOpen', headCache', ctx', DOMAIN o.heap)
      BY <1>2, <2>1, <2>2, <2>3, <2>6 DEF EntriesIn, Looked
    <3>2. DOMAIN heap' = LiveEntries' /\ HeapOK(heap') BY <2>1, <2>6, <3>1, HeapStays DEF Looked
    <3>3. DOMAIN file' = LiveFiles' /\ DiskOK(file') /\ cacheAt' \in [Paths -> Files \cup {NULL}]
      <4>1. CASE UNCHANGED <<cacheAt, file>>
        <5>1. LiveFiles' = LiveFiles BY <2>6, <4>1 DEF LiveFiles
        <5> QED BY <1>1, <4>1, <5>1
      <4>2. CASE cacheAt' = Moved(f, q) /\ Disk(file)
        <5>1. FilesIn(cacheAt', ctx', LiveFiles) BY <1>2, <1>3, <2>4, <2>6, <4>2 DEF FilesIn
        <5> QED BY <1>1, <2>4, <4>2, <5>1, DiskStays
      <4> QED BY <2>6, <4>1, <4>2
    <3> QED BY <1>0, <1>1, <2>2, <2>3, <2>5, <2>6, <3>2, <3>3, TypesAfter
  <2>7. CASE /\ cacheAt' = Moved(f, q)
             /\ ctx' = [d \in Contexts |->
                          IF d = c
                          THEN [ctx[d] EXCEPT !.path = q, !.name = q, !.entry = NewEntry]
                          ELSE IF IsOpen(d) /\ ctx[d].name = ctx[c].name
                               THEN [ctx[d] EXCEPT !.name = q] ELSE ctx[d]]
             /\ mOpen' = Register(Release(mOpen, p), q, NewEntry)
             /\ truth' = [truth EXCEPT ![q] = truth[ctx[c].name], ![ctx[c].name] = NULL]
             /\ Disk(file)
             /\ Heap(With(o.heap, NewEntry, heap[ctx[c].entry]))
    <3> DEFINE hh == With(o.heap, NewEntry, heap[ctx[c].entry])
    <3>1. truth' \in [Paths -> Nat \cup {NULL}] BY <1>1, <1>3, <2>7
    <3>2. ContextsOK(ctx') /\ \A d \in Contexts : /\ ctx'[d].handle = ctx[d].handle
                                                  /\ ctx'[d].entry \in {ctx[d].entry, NewEntry}
      <4>1. \A d \in Contexts : ContextOK(ctx[d]) BY <1>1 DEF ContextsOK
      <4>2. \A d \in Contexts : /\ ContextOK(ctx'[d]) /\ ctx'[d].handle = ctx[d].handle
                                /\ ctx'[d].entry \in {ctx[d].entry, NewEntry}
        <5> SUFFICES ASSUME NEW d \in Contexts
                     PROVE  /\ ContextOK(ctx'[d]) /\ ctx'[d].handle = ctx[d].handle
                            /\ ctx'[d].entry \in {ctx[d].entry, NewEntry}
          OBVIOUS
        <5>1. CASE d = c
          <6>1. ctx'[d] = [ctx[d] EXCEPT !.path = q, !.name = q, !.entry = NewEntry] BY <2>7, <5>1
          <6>2. ctx[d].state = "open" BY <1>0, <5>1 DEF IsOpen
          <6>3. NULL # q /\ NULL # NewEntry BY <1>4, NullIsNoObject
          <6>4. ctx'[d] \in Context BY <1>3, <1>4, <5>1, <6>1 DEF Context
          <6> QED BY <1>3, <4>1, <5>1, <6>1, <6>2, <6>3, <6>4 DEF ContextOK, Context
        <5>2. CASE d # c /\ IsOpen(d) /\ ctx[d].name = ctx[c].name
          <6>1. ctx'[d] = [ctx[d] EXCEPT !.name = q] BY <2>7, <5>2
          <6>2. ctx[d].state = "open" BY <5>2 DEF IsOpen
          <6>3. NULL # q BY NullIsNoObject
          <6> QED BY <4>1, <6>1, <6>2, <6>3 DEF ContextOK, Context
        <5>3. CASE d # c /\ ~(IsOpen(d) /\ ctx[d].name = ctx[c].name)
          <6>1. ctx'[d] = ctx[d] BY <2>7, <5>3
          <6> QED BY <4>1, <6>1
        <5> QED BY <5>1, <5>2, <5>3
      <4>3. ctx' = [d \in Contexts |-> ctx'[d]] BY <2>7
      <4> QED BY <4>2, <4>3 DEF ContextsOK
    <3>3. HeapOK(hh) /\ DOMAIN hh = DOMAIN o.heap \cup {NewEntry} /\ Heap(hh)
      <4>1. heap[ctx[c].entry] \in Entry BY <1>1, <1>3 DEF HeapOK
      <4> QED BY <2>1, <2>7, <4>1 DEF With, HeapOK, Looked
    <3> HIDE DEF hh
    <3>4. mOpen' \in Tables /\ \A r \in Paths : mOpen'[r].entry \in {mOpen[r].entry, NewEntry, NULL}
      <4>1. mOpen' = [Release(mOpen, p) EXCEPT ![q] = [entry |-> NewEntry, ref |-> 1]] BY <2>7 DEF Register
      <4>2. mOpen' \in Tables BY <1>4, <2>2, <2>7, TableFits
      <4> QED BY <2>2, <4>1, <4>2 DEF Tables
    <3>5. EntriesIn(mOpen', headCache', ctx', DOMAIN hh)
      BY <1>2, <2>1, <2>3, <3>2, <3>3, <3>4 DEF EntriesIn, Looked
    <3>6. DOMAIN heap' = LiveEntries' /\ HeapOK(heap') BY <3>3, <3>5, HeapStays
    <3>7. FilesIn(cacheAt', ctx', LiveFiles) BY <1>2, <1>3, <2>4, <2>7, <3>2 DEF FilesIn
    <3>8. DOMAIN file' = LiveFiles' /\ DiskOK(file') BY <1>1, <2>7, <3>7, DiskStays
    <3> QED BY <1>0, <1>1, <2>3, <2>4, <2>5, <2>7, <3>1, <3>2, <3>4, <3>6, <3>8, TypesAfter
  <2> QED BY <1>7, <2>6, <2>7, RenameGives
<1> QED BY <1>5, <1>6, <1>7

LEMMA InitType ==
  ASSUME Init
  PROVE  TypeOK
<1>1. LiveEntries = {} /\ LiveFiles = {}
  BY DEF Init, LiveEntries, LiveFiles, Unregistered, NoContext
<1>2. remote \in Buckets BY DEF Init, Buckets, Object
<1>3. mOpen \in Tables /\ headCache \in HeadCaches BY DEF Init, Tables, HeadCaches, Registration
<1>4. ContextsOK(ctx) BY FreeIsOK DEF Init, ContextsOK
<1>5. DiskOK(file) /\ DOMAIN file = LiveFiles BY <1>1 DEF Init, DiskOK
<1>6. HeapOK(heap) /\ DOMAIN heap = LiveEntries BY <1>1 DEF Init, HeapOK
<1>7. cacheAt \in [Paths -> Files \cup {NULL}] /\ deleting \subseteq Paths /\ clock \in Nat /\ world \in Worlds
  BY DEF Init
<1>8. truth \in [Paths -> Nat \cup {NULL}] BY DEF Init
<1> QED BY <1>2, <1>3, <1>4, <1>5, <1>6, <1>7, <1>8, TypesApart

(* The rename back to the path that the context still has.                 *)
LEMMA RenameBack ==
  ASSUME NEW c \in Contexts, NEW q \in Paths, Rename(c, q), q = ctx[c].path, UNCHANGED world
  PROVE  UNCHANGED vars
  BY DEF Rename, vars

LEMMA NextType ==
  ASSUME TypeOK, [Next]_vars
  PROVE  TypeOK'
<1>1. CASE UNCHANGED vars
  <2>1. LiveEntries' = LiveEntries /\ LiveFiles' = LiveFiles BY <1>1 DEF vars, LiveEntries, LiveFiles
  <2> QED BY <1>1, <2>1 DEF vars, TypeOK, InUse, IsOpen
<1>2. CASE Next /\ ~UNCHANGED vars
  <2>1. UNCHANGED world BY <1>2 DEF Next
  <2>2. ASSUME NEW c \in Contexts, Callback(c) PROVE TypeOK'
    <3>1. ASSUME NEW p \in Paths, NEW doc \in BOOLEAN, Open(c, p, doc) \/ Create(c, p, doc) PROVE TypeOK'
      BY <2>1, <3>1, OpenType, CreateType
    <3>2. CASE Read(c) \/ Write(c) \/ Truncate(c) \/ SetBasicInfo(c) \/ Flush(c) BY <2>1, <3>2, WorkType
    <3>3. CASE SetDelete(c) BY <2>1, <3>3, SetDeleteType
    <3>4. CASE Cleanup(c) BY <2>1, <3>4, CleanupType
    <3>5. CASE Close(c) BY <2>1, <3>5, CloseType
    <3>6. ASSUME NEW q \in Paths, Rename(c, q) PROVE TypeOK' BY <1>2, <2>1, <3>6, RenameBack, RenameType
    <3> QED BY <2>2, <3>1, <3>2, <3>3, <3>4, <3>5, <3>6 DEF Callback
  <2>3. ASSUME NEW p \in Paths, LookUp(p) \/ Expire(p) \/ StoredElsewhere(p) PROVE TypeOK'
    BY <2>1, <2>3, LookUpType, ExpireType
  <2> QED BY <1>2, <2>2, <2>3 DEF Next
<1> QED BY <1>1, <1>2

------------------------------------------------------------------------------
(* What each callback does to the contexts and to the table.               *)
Users(p) == {c \in Contexts : InUse(c) /\ ctx[c].path = p}

(* the contexts are used as before *)
SameUse ==
  \A d \in Contexts :
    /\ ctx'[d].state = ctx[d].state /\ ctx'[d].path = ctx[d].path /\ ctx'[d].name = ctx[d].name
    /\ ctx'[d].entry = ctx[d].entry /\ ctx'[d].handle = ctx[d].handle
    /\ ctx'[d].deleteOnClose = ctx[d].deleteOnClose

Work(c) == Read(c) \/ Write(c) \/ Truncate(c) \/ SetBasicInfo(c) \/ Flush(c)

LEMMA WorkKeeps ==
  ASSUME TypeOK, NEW c \in Contexts, Work(c)
  PROVE  /\ IsOpen(c) /\ SameUse /\ UNCHANGED <<remote, cacheAt, mOpen, headCache, deleting>>
         /\ \A d \in Contexts \ {c} : ctx'[d] = ctx[d]
         /\ ctx'[c].modify = ctx[c].modify \/ ctx'[c].modify
<1>1. IsOpen(c) /\ UNCHANGED <<remote, cacheAt, mOpen, headCache, deleting>>
  BY DEF Work, Read, Write, Truncate, SetBasicInfo, Flush
<1>2. ctx' = ctx \/ ctx' = [ctx EXCEPT ![c].modify = TRUE]
  <2>1. CASE Write(c)
    <3>1. \E o \in SyncContent(c) :
            IF o.ok THEN ctx' = [ctx EXCEPT ![c].modify = TRUE] ELSE UNCHANGED ctx
      BY <2>1 DEF Write
    <3> QED BY <3>1
  <2>2. CASE Read(c) \/ Truncate(c) \/ SetBasicInfo(c) \/ Flush(c)
    BY <2>2 DEF Read, Truncate, SetBasicInfo, Flush
  <2> QED BY <2>1, <2>2 DEF Work
<1>3. ContextsOK(ctx) BY TypesApart
<1>4. CASE ctx' = ctx BY <1>1, <1>4 DEF SameUse
<1>5. CASE ctx' = [ctx EXCEPT ![c].modify = TRUE]
  <2>1. ctx' = [ctx EXCEPT ![c] = [ctx[c] EXCEPT !.modify = TRUE]] BY <1>5
  <2>2. ctx[c] \in Context BY <1>3 DEF ContextsOK, ContextOK
  <2>3. ctx'[c] = [ctx[c] EXCEPT !.modify = TRUE] /\ \A d \in Contexts \ {c} : ctx'[d] = ctx[d]
    BY <1>3, <2>1 DEF ContextsOK
  <2> QED BY <1>1, <2>2, <2>3 DEF SameUse, Context
<1> QED BY <1>2, <1>4, <1>5

LEMMA CleanupKeeps ==
  ASSUME TypeOK, NEW c \in Contexts, Cleanup(c)
  PROVE  /\ ctx'[c].state = "cleaned" /\ ctx'[c].path = ctx[c].path /\ ctx'[c].name = ctx[c].name
         /\ ctx'[c].entry = ctx[c].entry /\ ctx'[c].deleteOnClose = ctx[c].deleteOnClose
         /\ ctx'[c].modify = ctx[c].modify
         /\ ctx'[c].handle = IF CleanupDelete(c) THEN NULL ELSE ctx[c].handle
         /\ \A d \in Contexts \ {c} : ctx'[d] = ctx[d]
<1>0. IsOpen(c) BY DEF Cleanup
<1>1. ContextsOK(ctx) /\ ctx[c] \in Context BY <1>0, TypesApart, CleanedIsOK
<1>2. CASE CleanupDelete(c)
  <2>1. ctx' = [ctx EXCEPT ![c] = [ctx[c] EXCEPT !.state = "cleaned", !.handle = NULL]]
    BY <1>2 DEF CleanupDelete
  <2>2. /\ ctx'[c] = [ctx[c] EXCEPT !.state = "cleaned", !.handle = NULL]
        /\ \A d \in Contexts \ {c} : ctx'[d] = ctx[d]
    BY <1>0, <2>1, CleanedIsOK, ChangedContext
  <2> QED BY <1>1, <1>2, <2>2 DEF Context
<1>3. CASE ~CleanupDelete(c)
  <2>1. ctx' = [ctx EXCEPT ![c] = [ctx[c] EXCEPT !.state = "cleaned"]]
    BY <1>3 DEF Cleanup
  <2>2. /\ ctx'[c] = [ctx[c] EXCEPT !.state = "cleaned"]
        /\ \A d \in Contexts \ {c} : ctx'[d] = ctx[d]
    BY <1>0, <2>1, CleanedIsOK, ChangedContext
  <2> QED BY <1>1, <1>3, <2>2 DEF Context
<1> QED BY <1>2, <1>3

LEMMA CloseKeeps ==
  ASSUME TypeOK, NEW c \in Contexts, Close(c)
  PROVE  /\ ctx'[c] = NoContext /\ ~InUse(c)' /\ \A d \in Contexts \ {c} : ctx'[d] = ctx[d]
         /\ mOpen' = Release(mOpen, ctx[c].path) /\ InUse(c) /\ ~IsOpen(c)
         /\ ctx[c].path \in Paths /\ UNCHANGED <<deleting, truth, clock>>
<1>1. ContextsOK(ctx) BY TypesApart
<1>2. InUse(c) /\ ~IsOpen(c) BY DEF Close, InUse, IsOpen
<1>3. ctx[c].path \in Paths BY <1>1, <1>2 DEF ContextsOK, ContextOK, InUse, Context
<1>4. ctx' = [ctx EXCEPT ![c] = NoContext] /\ mOpen' = Release(mOpen, ctx[c].path) /\ UNCHANGED <<deleting, truth, clock>>
  BY DEF Close
<1>5. ctx'[c] = NoContext /\ \A d \in Contexts \ {c} : ctx'[d] = ctx[d] BY <1>4, FreeIsOK, ChangedContext
<1>6. ~InUse(c)' BY <1>5, FreeIsOK DEF InUse
<1> QED BY <1>2, <1>3, <1>4, <1>5, <1>6

(* What is left of a table after a release.                                *)
LEMMA ReleaseGives ==
  ASSUME NEW m \in Tables, NEW p \in Paths
  PROVE  /\ \A q \in Paths \ {p} : Release(m, p)[q] = m[q]
         /\ Release(m, p)[p].ref = IF m[p].ref <= 1 THEN 0 ELSE m[p].ref - 1
         /\ m[p].ref > 1 => Release(m, p)[p].entry = m[p].entry
         /\ m[p].ref <= 1 => Release(m, p)[p] = Unregistered
  BY TableFits DEF Release, Tables, Unregistered

(* the last outcome of a rename, as seen from the contexts                 *)
Renamed(c, q) ==
  /\ \A d \in Contexts :
       /\ ctx'[d].state = ctx[d].state /\ ctx'[d].handle = ctx[d].handle
       /\ ctx'[d].modify = ctx[d].modify /\ ctx'[d].deleteOnClose = ctx[d].deleteOnClose
       /\ d # c => ctx'[d].path = ctx[d].path /\ ctx'[d].entry = ctx[d].entry
       /\ d # c => ctx'[d].name = IF IsOpen(d) /\ ctx[d].name = ctx[c].name THEN q ELSE ctx[d].name
  /\ ctx'[c].path = q /\ ctx'[c].name = q /\ ctx'[c].entry = NewEntry

LEMMA RenameContexts ==
  ASSUME TypeOK, NEW c \in Contexts, IsOpen(c), NEW q \in Paths,
         ctx' = [d \in Contexts |->
                   IF d = c
                   THEN [ctx[d] EXCEPT !.path = q, !.name = q, !.entry = NewEntry]
                   ELSE IF IsOpen(d) /\ ctx[d].name = ctx[c].name
                        THEN [ctx[d] EXCEPT !.name = q] ELSE ctx[d]]
  PROVE  Renamed(c, q)
<1>1. ContextsOK(ctx) BY TypesApart
<1>2. \A d \in Contexts : ctx[d] \in Context BY <1>1 DEF ContextsOK, ContextOK
<1>3. ctx'[c] = [ctx[c] EXCEPT !.path = q, !.name = q, !.entry = NewEntry] OBVIOUS
<1>4. ctx[c] \in Context BY <1>2
<1>5. /\ ctx'[c].path = q /\ ctx'[c].name = q /\ ctx'[c].entry = NewEntry
      /\ ctx'[c].state = ctx[c].state /\ ctx'[c].handle = ctx[c].handle
      /\ ctx'[c].modify = ctx[c].modify /\ ctx'[c].deleteOnClose = ctx[c].deleteOnClose
  BY <1>3, <1>4 DEF Context
<1>6. \A d \in Contexts \ {c} :
       /\ ctx'[d].state = ctx[d].state /\ ctx'[d].handle = ctx[d].handle
       /\ ctx'[d].modify = ctx[d].modify /\ ctx'[d].deleteOnClose = ctx[d].deleteOnClose
       /\ ctx'[d].path = ctx[d].path /\ ctx'[d].entry = ctx[d].entry
       /\ ctx'[d].name = IF IsOpen(d) /\ ctx[d].name = ctx[c].name THEN q ELSE ctx[d].name
  <2> SUFFICES ASSUME NEW d \in Contexts \ {c}
               PROVE  /\ ctx'[d].state = ctx[d].state /\ ctx'[d].handle = ctx[d].handle
                      /\ ctx'[d].modify = ctx[d].modify /\ ctx'[d].deleteOnClose = ctx[d].deleteOnClose
                      /\ ctx'[d].path = ctx[d].path /\ ctx'[d].entry = ctx[d].entry
                      /\ ctx'[d].name = IF IsOpen(d) /\ ctx[d].name = ctx[c].name THEN q ELSE ctx[d].name
    OBVIOUS
  <2>1. ctx[d] \in Context BY <1>2
  <2>2. CASE IsOpen(d) /\ ctx[d].name = ctx[c].name
    <3>1. ctx'[d] = [ctx[d] EXCEPT !.name = q] BY <2>2
    <3> QED BY <2>1, <2>2, <3>1 DEF Context
  <2>3. CASE ~(IsOpen(d) /\ ctx[d].name = ctx[c].name)
    <3>1. ctx'[d] = ctx[d] BY <2>3
    <3> QED BY <2>3, <3>1
  <2> QED BY <2>2, <2>3
<1> QED BY <1>5, <1>6 DEF Renamed

------------------------------------------------------------------------------
(* NoEntryLeak: a count goes up with a context more and down with each     *)
(* context less.                                                           *)
LEMMA UserCount ==
  /\ \A p \in Paths : IsFiniteSet(Users(p)) /\ Cardinality(Users(p)) \in Nat
  /\ \A p \in Paths : IsFiniteSet(Users(p)') /\ Cardinality(Users(p)') \in Nat
<1>1. \A p \in Paths : Users(p) \subseteq Contexts /\ Users(p)' \subseteq Contexts BY DEF Users
<1> QED BY <1>1, SomeOfEach, FS_Subset, FS_CardinalityType

LEMMA LeakIsUsers ==
  /\ NoEntryLeak <=> \A p \in Paths : mOpen[p].ref <= Cardinality(Users(p))
  /\ NoEntryLeak' <=> \A p \in Paths : mOpen'[p].ref <= Cardinality(Users(p)')
  BY DEF NoEntryLeak, Users

LEMMA MoreUsers ==
  ASSUME NEW p \in Paths, NEW c \in Contexts, c \notin Users(p), Users(p)' = Users(p) \cup {c}
  PROVE  Cardinality(Users(p)') = Cardinality(Users(p)) + 1
  BY UserCount, FS_AddElement

LEMMA LessUsers ==
  ASSUME NEW p \in Paths, NEW c \in Contexts, c \in Users(p), Users(p)' = Users(p) \ {c}
  PROVE  Cardinality(Users(p)') = Cardinality(Users(p)) - 1 /\ Cardinality(Users(p)) > 0
<1>1. Cardinality(Users(p)') = Cardinality(Users(p)) - 1 BY UserCount, FS_RemoveElement
<1> QED BY <1>1, UserCount

(* The users of each path after c was opened, closed or renamed.           *)
LEMMA UsersOpened ==
  ASSUME TypeOK, NEW c \in Contexts, ~InUse(c), NEW p \in Paths, ctx'[c].state = "open", ctx'[c].path = p,
         \A d \in Contexts \ {c} : ctx'[d] = ctx[d]
  PROVE  /\ c \notin Users(p) /\ Users(p)' = Users(p) \cup {c}
         /\ \A q \in Paths \ {p} : Users(q)' = Users(q)
<1>1. InUse(c)' BY DEF InUse
<1> QED BY <1>1 DEF Users, InUse

LEMMA UsersClosed ==
  ASSUME TypeOK, NEW c \in Contexts, InUse(c), ~InUse(c)', NEW p \in Paths, p = ctx[c].path,
         \A d \in Contexts \ {c} : ctx'[d] = ctx[d]
  PROVE  /\ c \in Users(p) /\ Users(p)' = Users(p) \ {c}
         /\ \A q \in Paths \ {p} : Users(q)' = Users(q)
  BY DEF Users, InUse

LEMMA UsersRenamed ==
  ASSUME TypeOK, NEW c \in Contexts, IsOpen(c), NEW p \in Paths, NEW q \in Paths, p = ctx[c].path, q # p,
         Renamed(c, q)
  PROVE  /\ c \in Users(p) /\ Users(p)' = Users(p) \ {c}
         /\ c \notin Users(q) /\ Users(q)' = Users(q) \cup {c}
         /\ \A r \in Paths \ {p, q} : Users(r)' = Users(r)
<1>1. InUse(c) /\ InUse(c)' BY DEF Renamed, InUse, IsOpen
<1> QED BY <1>1 DEF Users, InUse, Renamed

LEMMA UsersStay ==
  ASSUME \A d \in Contexts : ctx'[d].path = ctx[d].path /\ (InUse(d)' <=> InUse(d))
  PROVE  \A p \in Paths : Users(p)' = Users(p)
  BY DEF Users

LEMMA LeakStays ==
  ASSUME TypeOK, TypeOK', NoEntryLeak,
         \A p \in Paths : mOpen'[p].ref <= mOpen[p].ref /\ Users(p)' = Users(p)
  PROVE  NoEntryLeak'
<1>1. \A p \in Paths : mOpen[p].ref \in Nat /\ mOpen'[p].ref \in Nat
  BY TypesApart, TableFits DEF TypeOK, Tables, Registration
<1>2. \A p \in Paths : mOpen[p].ref <= Cardinality(Users(p)) BY LeakIsUsers
<1>3. ASSUME NEW p \in Paths PROVE mOpen'[p].ref <= Cardinality(Users(p)')
  BY <1>1, <1>2, UserCount
<1> QED BY <1>3, LeakIsUsers

LEMMA LeakEntered ==
  ASSUME TypeOK, TypeOK', NoEntryLeak, NEW c \in Contexts, ~InUse(c), NEW p \in Paths, NEW n,
         ctx'[c] = n, n.state = "open", n.path = p, \A d \in Contexts \ {c} : ctx'[d] = ctx[d],
         \A q \in Paths \ {p} : mOpen'[q] = mOpen[q],
         mOpen'[p].ref \in {1, mOpen[p].ref + 1}
  PROVE  NoEntryLeak'
<1>1. \A q \in Paths : mOpen[q].ref \in Nat /\ mOpen'[q].ref \in Nat
  BY TypesApart, TableFits DEF TypeOK, Tables, Registration
<1>2. \A q \in Paths : mOpen[q].ref <= Cardinality(Users(q)) BY LeakIsUsers
<1>3. /\ c \notin Users(p) /\ Users(p)' = Users(p) \cup {c} /\ \A q \in Paths \ {p} : Users(q)' = Users(q)
  BY UsersOpened
<1>4. Cardinality(Users(p)') = Cardinality(Users(p)) + 1 BY <1>3, MoreUsers
<1>5. ASSUME NEW q \in Paths PROVE mOpen'[q].ref <= Cardinality(Users(q)')
  <2>1. CASE q = p BY <1>1, <1>2, <1>4, <2>1, UserCount
  <2>2. CASE q # p BY <1>2, <1>3, <2>2
  <2> QED BY <2>1, <2>2
<1> QED BY <1>5, LeakIsUsers

LEMMA OpenLeak ==
  ASSUME TypeOK, TypeOK', NoEntryLeak, NEW c \in Contexts, NEW p \in Paths, NEW doc \in BOOLEAN,
         Open(c, p, doc) \/ Create(c, p, doc)
  PROVE  NoEntryLeak'
<1>1. CASE UNCHANGED <<mOpen, ctx>>
  <2>1. \A q \in Paths : Users(q)' = Users(q) BY <1>1 DEF Users, InUse
  <2>2. \A q \in Paths : mOpen[q].ref \in Nat BY TypesApart, TableFits
  <2> QED BY <1>1, <2>1, <2>2, LeakStays
<1>2. CASE ~UNCHANGED <<mOpen, ctx>>
  <2>1. ~InUse(c) BY DEF Open, Create
  <2>2. \E e, f, b : /\ NewContext(c, p, e, f, b, doc)
                     /\ \/ mOpen' = Acquire(mOpen, p) \/ mOpen' = Register(mOpen, p, e)
    <3>1. CASE Open(c, p, doc)
      <4>1. PICK o : IF o.entry = NULL \/ Blocked(p)
                     THEN UNCHANGED <<cacheAt, file, mOpen, ctx>>
                     ELSE LET f == CacheFile(p) IN
                          /\ cacheAt' = [cacheAt EXCEPT ![p] = f]
                          /\ NewContext(c, p, o.entry, f, FALSE, doc)
                          /\ mOpen' = IF mOpen[p] = Unregistered THEN Register(mOpen, p, o.entry)
                                      ELSE Acquire(mOpen, p)
                          /\ Disk(With(file, f, SyncAttributes(f, o.heap[o.entry])))
        BY <3>1, Zenon DEF Open
      <4>2. ~(o.entry = NULL \/ Blocked(p)) BY <1>2, <4>1
      <4>3. NewContext(c, p, o.entry, CacheFile(p), FALSE, doc) BY <4>1, <4>2
      <4>4. mOpen' = Register(mOpen, p, o.entry) \/ mOpen' = Acquire(mOpen, p) BY <4>1, <4>2
      <4> QED BY <4>3, <4>4
    <3>2. CASE Create(c, p, doc)
      <4>1. PICK o \in CanCreateObject(p) :
             IF o.entry # NULL \/ Blocked(p)
             THEN UNCHANGED <<cacheAt, file, mOpen, ctx, truth, clock>>
             ELSE /\ NewContext(c, p, NewEntry, CacheFile(p), TRUE, doc)
                  /\ mOpen' = Register(mOpen, p, NewEntry)
        BY <3>2 DEF Create
      <4> QED BY <1>2, <4>1
    <3> QED BY <3>1, <3>2
  <2>3. PICK e, f, b : /\ NewContext(c, p, e, f, b, doc)
                       /\ \/ mOpen' = Acquire(mOpen, p) \/ mOpen' = Register(mOpen, p, e)
    BY <2>2
  <2> DEFINE n == [state |-> "open", path |-> p, name |-> p, entry |-> e, handle |-> f,
                   modify |-> b, deleteOnClose |-> doc]
  <2>4. ctx'[c] = n /\ \A d \in Contexts \ {c} : ctx'[d] = ctx[d]
    <3>1. ContextsOK(ctx) BY TypesApart
    <3> QED BY <2>3, <3>1 DEF NewContext, ContextsOK
  <2>5. n.state = "open" /\ n.path = p OBVIOUS
  <2>6. mOpen \in Tables BY TypesApart
  <2>7. \A q \in Paths \ {p} : mOpen'[q] = mOpen[q]
    BY <2>3, <2>6 DEF Acquire, Register, Tables
  <2>8. mOpen'[p].ref \in {1, mOpen[p].ref + 1}
    <3>1. mOpen[p] = [entry |-> mOpen[p].entry, ref |-> mOpen[p].ref]
      BY <2>6 DEF Tables, Registration, Unregistered
    <3>2. CASE mOpen' = Acquire(mOpen, p)
      <4>1. mOpen'[p] = [mOpen[p] EXCEPT !.ref = mOpen[p].ref + 1] BY <2>6, <3>2 DEF Acquire, Tables
      <4> QED BY <3>1, <4>1
    <3>3. CASE mOpen' = Register(mOpen, p, e)
      <4>1. mOpen'[p] = [entry |-> e, ref |-> 1] BY <2>6, <3>3 DEF Register, Tables
      <4> QED BY <4>1
    <3> QED BY <2>3, <3>2, <3>3
  <2> HIDE DEF n
  <2> QED BY <2>1, <2>4, <2>5, <2>7, <2>8, LeakEntered
<1> QED BY <1>1, <1>2

LEMMA CloseLeak ==
  ASSUME TypeOK, TypeOK', NoEntryLeak, NEW c \in Contexts, Close(c)
  PROVE  NoEntryLeak'
<1>1. PICK p \in Paths : p = ctx[c].path BY CloseKeeps
<1>2. /\ \A q \in Paths \ {p} : Users(q)' = Users(q)
      /\ c \in Users(p) /\ Users(p)' = Users(p) \ {c}
  BY <1>1, CloseKeeps, UsersClosed
<1>3. Cardinality(Users(p)') = Cardinality(Users(p)) - 1 BY <1>2, LessUsers
<1>4. mOpen \in Tables BY TypesApart
<1>5. /\ \A q \in Paths \ {p} : mOpen'[q] = mOpen[q]
      /\ mOpen'[p].ref = IF mOpen[p].ref <= 1 THEN 0 ELSE mOpen[p].ref - 1
  BY <1>1, <1>4, CloseKeeps, ReleaseGives
<1>6. \A q \in Paths : mOpen[q].ref <= Cardinality(Users(q)) /\ mOpen[q].ref \in Nat
  BY <1>4, LeakIsUsers, TableFits
<1>7. ASSUME NEW q \in Paths PROVE mOpen'[q].ref <= Cardinality(Users(q)')
  <2>1. CASE q = p BY <1>3, <1>5, <1>6, <2>1, UserCount
  <2>2. CASE q # p BY <1>2, <1>5, <1>6, <2>2
  <2> QED BY <2>1, <2>2
<1> QED BY <1>7, LeakIsUsers

LEMMA RenameLeak ==
  ASSUME TypeOK, TypeOK', NoEntryLeak, NEW c \in Contexts, NEW q \in Paths, Rename(c, q), q # ctx[c].path
  PROVE  NoEntryLeak'
<1>1. IsOpen(c) /\ ctx[c].path \in Paths BY CleanedIsOK DEF Rename
<1>2. PICK p \in Paths : p = ctx[c].path BY <1>1
<1>3. mOpen \in Tables BY TypesApart
<1>4. \A r \in Paths : mOpen[r].ref <= Cardinality(Users(r)) /\ mOpen[r].ref \in Nat
  BY <1>3, LeakIsUsers, TableFits
<1>5. /\ \A r \in Paths \ {p} : Release(mOpen, p)[r] = mOpen[r]
      /\ Release(mOpen, p)[p].ref = IF mOpen[p].ref <= 1 THEN 0 ELSE mOpen[p].ref - 1
  BY <1>3, ReleaseGives
<1>6. CASE UNCHANGED ctx /\ mOpen' \in {mOpen, Release(mOpen, p)}
  <2>1. \A r \in Paths : Users(r)' = Users(r) BY <1>6 DEF Users, InUse
  <2>2. \A r \in Paths : mOpen'[r].ref <= mOpen[r].ref BY <1>4, <1>5, <1>6
  <2> QED BY <2>1, <2>2, LeakStays
<1>7. CASE Renamed(c, q) /\ mOpen' = Register(Release(mOpen, p), q, NewEntry)
  <2>1. q # p BY <1>2
  <2>2. /\ c \in Users(p) /\ Users(p)' = Users(p) \ {c}
        /\ c \notin Users(q) /\ Users(q)' = Users(q) \cup {c}
        /\ \A r \in Paths \ {p, q} : Users(r)' = Users(r)
    BY <1>1, <1>2, <1>7, <2>1, UsersRenamed
  <2>3. Cardinality(Users(p)') = Cardinality(Users(p)) - 1 /\ Cardinality(Users(q)') = Cardinality(Users(q)) + 1
    BY <2>2, LessUsers, MoreUsers
  <2>4. Release(mOpen, p) \in Tables BY <1>3, TableFits
  <2>5. mOpen'[q] = [entry |-> NewEntry, ref |-> 1] /\ \A r \in Paths \ {q} : mOpen'[r] = Release(mOpen, p)[r]
    BY <1>7, <2>4 DEF Register, Tables
  <2>6. ASSUME NEW r \in Paths PROVE mOpen'[r].ref <= Cardinality(Users(r)')
    <3>1. CASE r = p BY <1>4, <1>5, <2>1, <2>3, <2>5, <3>1, UserCount
    <3>2. CASE r = q BY <2>3, <2>5, <3>2, UserCount
    <3>3. CASE r \notin {p, q} BY <1>4, <1>5, <2>2, <2>5, <3>3
    <3> QED BY <3>1, <3>2, <3>3
  <2> QED BY <2>6, LeakIsUsers
<1>8. \/ UNCHANGED ctx /\ mOpen' \in {mOpen, Release(mOpen, p)}
      \/ Renamed(c, q) /\ mOpen' = Register(Release(mOpen, p), q, NewEntry)
  <2>1. PICK o \in CanCreateObject(q) :
          IF o.entry # NULL \/ mOpen[p] = Unregistered THEN UNCHANGED <<mOpen, ctx>> ELSE RenameReleased(c, q, o)
    BY <1>2 DEF Rename
  <2>2. CASE RenameReleased(c, q, o) BY <1>1, <1>2, <2>2, RenameContexts DEF RenameReleased
  <2> QED BY <2>1, <2>2
<1> QED BY <1>6, <1>7, <1>8

LEMMA NextLeak ==
  ASSUME TypeOK, TypeOK', NoEntryLeak, [Next]_vars
  PROVE  NoEntryLeak'
<1>0. mOpen \in Tables /\ \A q \in Paths : mOpen[q].ref \in Nat BY TypesApart, TableFits
<1>1. CASE UNCHANGED mOpen /\ \A d \in Contexts : ctx'[d].path = ctx[d].path /\ ctx'[d].state = ctx[d].state
  <2>1. \A p \in Paths : Users(p)' = Users(p) BY <1>1, UsersStay DEF InUse
  <2> QED BY <1>0, <1>1, <2>1, LeakStays
<1>2. ASSUME NEW c \in Contexts, Callback(c) PROVE NoEntryLeak'
  <2>1. ASSUME NEW p \in Paths, NEW doc \in BOOLEAN, Open(c, p, doc) \/ Create(c, p, doc) PROVE NoEntryLeak'
    BY <2>1, OpenLeak
  <2>2. CASE Work(c) BY <1>1, <2>2, WorkKeeps DEF SameUse
  <2>3. CASE SetDelete(c) BY <1>1, <2>3 DEF SetDelete
  <2>4. CASE Cleanup(c)
    <3>1. IsOpen(c) /\ ctx[c].path \in Paths BY <2>4, CleanedIsOK DEF Cleanup
    <3>2. \A d \in Contexts : ctx'[d].path = ctx[d].path /\ (InUse(d)' <=> InUse(d))
      BY <2>4, <3>1, CleanupKeeps DEF InUse, IsOpen
    <3>3. \A p \in Paths : Users(p)' = Users(p) BY <3>2, UsersStay
    <3>4. mOpen' = mOpen \/ mOpen' = Release(mOpen, ctx[c].path) BY <2>4 DEF Cleanup, CleanupDelete
    <3>5. \A p \in Paths : mOpen'[p].ref <= mOpen[p].ref
      <4>1. CASE mOpen' = mOpen BY <1>0, <4>1
      <4>2. CASE mOpen' = Release(mOpen, ctx[c].path) BY <1>0, <3>1, <4>2, ReleaseGives
      <4> QED BY <3>4, <4>1, <4>2
    <3> QED BY <3>3, <3>5, LeakStays
  <2>5. CASE Close(c) BY <2>5, CloseLeak
  <2>6. ASSUME NEW q \in Paths, Rename(c, q) PROVE NoEntryLeak'
    <3>1. CASE q = ctx[c].path BY <1>1, <2>6, <3>1 DEF Rename
    <3>2. CASE q # ctx[c].path BY <2>6, <3>2, RenameLeak
    <3> QED BY <3>1, <3>2
  <2> QED BY <1>2, <2>1, <2>2, <2>3, <2>4, <2>5, <2>6 DEF Callback, Work
<1>3. ASSUME NEW p \in Paths, LookUp(p) \/ Expire(p) \/ StoredElsewhere(p) PROVE NoEntryLeak'
  <2>1. UNCHANGED <<mOpen, ctx>> BY <1>3 DEF LookUp, Expire, StoredElsewhere
  <2> QED BY <1>1, <2>1
<1>4. CASE UNCHANGED vars BY <1>1, <1>4 DEF vars
<1> QED BY <1>2, <1>3, <1>4 DEF Next

------------------------------------------------------------------------------
(* A name that is to be deleted has an open handle and nothing stored that *)
(* the user would miss.                                                    *)
Doomed == \A n \in deleting : truth[n] = NULL /\ \E c \in Contexts : IsOpen(c) /\ ctx[c].name = n

(* A context has the path of its file unless the file was renamed through  *)
(* another handle.                                                         *)
NamesFit == May("shared") \/ \A c \in Contexts : InUse(c) => ctx[c].name = ctx[c].path

(* An object that goes is one that is to be deleted, or is there under     *)
(* another name; it goes through an open handle of its own file, unless    *)
(* files may be renamed while there are other handles of them.             *)
RemovesOnlyTheDeleted ==
  \A p \in Paths : remote[p] # NULL /\ remote'[p] = NULL =>
    \E c \in Contexts :
      /\ IsOpen(c) /\ ctx[c].path = p
      /\ ctx[c].name = p \/ May("shared")
      /\ AsksToDelete(c) \/ \E q \in Paths \ {p} : remote'[q] = remote[p]

(* the one object that goes is that of c's path *)
LEMMA RemovesByContext ==
  ASSUME NamesFit, NEW c \in Contexts, IsOpen(c),
         \A r \in Paths \ {ctx[c].path} : remote[r] # NULL => remote'[r] # NULL,
         AsksToDelete(c) \/ \E q \in Paths \ {ctx[c].path} : remote'[q] = remote[ctx[c].path]
  PROVE  RemovesOnlyTheDeleted
<1>1. ctx[c].name = ctx[c].path \/ May("shared") BY DEF NamesFit, IsOpen, InUse
<1> SUFFICES ASSUME NEW p \in Paths, remote[p] # NULL, remote'[p] = NULL
             PROVE  /\ IsOpen(c) /\ ctx[c].path = p
                    /\ ctx[c].name = p \/ May("shared")
                    /\ AsksToDelete(c) \/ \E q \in Paths \ {p} : remote'[q] = remote[p]
  BY DEF RemovesOnlyTheDeleted
<1>2. ctx[c].path = p OBVIOUS
<1> QED BY <1>1, <1>2

LEMMA DoomedStays ==
  ASSUME Doomed, deleting' \subseteq deleting, \A n \in deleting : truth'[n] = truth[n],
         \A d \in Contexts, n \in deleting' : IsOpen(d) /\ ctx[d].name = n => IsOpen(d)' /\ ctx'[d].name = n
  PROVE  Doomed'
  BY DEF Doomed

LEMMA OpenContexts ==
  ASSUME TypeOK, NEW c \in Contexts, NEW p \in Paths, NEW doc \in BOOLEAN,
         Open(c, p, doc) \/ Create(c, p, doc)
  PROVE  /\ ~InUse(c) /\ UNCHANGED <<remote, deleting>> /\ p \notin deleting
         /\ \A d \in Contexts : d # c => ctx'[d] = ctx[d]
         /\ UNCHANGED ctx \/ (ctx'[c].path = p /\ ctx'[c].name = p)
<1>1. ~InUse(c) /\ UNCHANGED <<remote, deleting>> /\ p \notin deleting BY DEF Open, Create, Admits
<1>2. ContextsOK(ctx) BY TypesApart
<1>3. UNCHANGED ctx \/ \E e, f, b : NewContext(c, p, e, f, b, doc)
  <2>1. CASE Open(c, p, doc)
    <3>1. PICK o : IF o.entry = NULL \/ Blocked(p)
                   THEN UNCHANGED <<cacheAt, file, mOpen, ctx>>
                   ELSE LET f == CacheFile(p) IN
                        /\ cacheAt' = [cacheAt EXCEPT ![p] = f]
                        /\ NewContext(c, p, o.entry, f, FALSE, doc)
                        /\ mOpen' = IF mOpen[p] = Unregistered THEN Register(mOpen, p, o.entry)
                                    ELSE Acquire(mOpen, p)
                        /\ Disk(With(file, f, SyncAttributes(f, o.heap[o.entry])))
      BY <2>1, Zenon DEF Open
    <3> QED BY <3>1
  <2>2. CASE Create(c, p, doc)
    <3>1. PICK o \in CanCreateObject(p) :
           IF o.entry # NULL \/ Blocked(p)
           THEN UNCHANGED <<cacheAt, file, mOpen, ctx, truth, clock>>
           ELSE NewContext(c, p, NewEntry, CacheFile(p), TRUE, doc)
      BY <2>2 DEF Create
    <3> QED BY <3>1
  <2> QED BY <2>1, <2>2
<1>4. \A d \in Contexts : d # c => ctx'[d] = ctx[d] BY <1>2, <1>3 DEF NewContext, ContextsOK
<1>5. UNCHANGED ctx \/ (ctx'[c].path = p /\ ctx'[c].name = p) BY <1>2, <1>3 DEF NewContext, ContextsOK
<1> QED BY <1>1, <1>4, <1>5

LEMMA OpenDoomed ==
  ASSUME TypeOK, Doomed, NEW c \in Contexts, NEW p \in Paths, NEW doc \in BOOLEAN,
         Open(c, p, doc) \/ Create(c, p, doc)
  PROVE  Doomed' /\ RemovesOnlyTheDeleted
<1>1. ~InUse(c) /\ UNCHANGED <<remote, deleting>> /\ p \notin deleting BY OpenContexts
<1>2. truth \in [Paths -> Nat \cup {NULL}] BY TypesApart
<1>3. \A d \in Contexts : d # c => ctx'[d] = ctx[d] BY OpenContexts
<1>4. ~IsOpen(c) BY <1>1 DEF InUse, IsOpen
<1>5. \A d \in Contexts, n \in deleting' : IsOpen(d) /\ ctx[d].name = n => IsOpen(d)' /\ ctx'[d].name = n
  BY <1>3, <1>4 DEF IsOpen
<1>6. \A n \in deleting : truth'[n] = truth[n]
  <2>1. truth' = truth \/ truth' = [truth EXCEPT ![p] = 0] BY DEF Open, Create
  <2>2. deleting \subseteq Paths BY TypesApart
  <2> QED BY <1>1, <1>2, <2>1, <2>2
<1>7. Doomed' BY <1>1, <1>5, <1>6, DoomedStays
<1> QED BY <1>1, <1>7 DEF RemovesOnlyTheDeleted

LEMMA WorkDoomed ==
  ASSUME TypeOK, Doomed, NEW c \in Contexts, Work(c)
  PROVE  Doomed' /\ RemovesOnlyTheDeleted
<1>1. SameUse /\ UNCHANGED <<remote, deleting>> BY WorkKeeps
<1>2. \A n \in deleting : truth'[n] = truth[n]
  <2>1. truth \in [Paths -> Nat \cup {NULL}] BY TypesApart
  <2>2. ASSUME NEW m, Stored(c, m) PROVE \A n \in deleting : truth'[n] = truth[n]
    <3>1. deleting \subseteq Paths BY TypesApart
    <3>2. CASE ctx[c].name \in deleting BY <2>2, <3>2 DEF Stored
    <3>3. CASE ctx[c].name \notin deleting
      <4>1. truth' = [truth EXCEPT ![ctx[c].name] = m] BY <2>2, <3>3 DEF Stored
      <4> QED BY <2>1, <3>1, <3>3, <4>1
    <3> QED BY <3>2, <3>3
  <2>3. CASE Write(c)
    <3>1. \E o \in SyncContent(c) : Stored(c, clock') \/ UNCHANGED truth BY <2>3 DEF Write
    <3> QED BY <2>2, <3>1
  <2>4. CASE Truncate(c) BY <2>2, <2>4 DEF Truncate
  <2>5. CASE Read(c) \/ SetBasicInfo(c) \/ Flush(c) BY <2>5 DEF Read, SetBasicInfo, Flush
  <2> QED BY <2>3, <2>4, <2>5 DEF Work
<1>3. Doomed' BY <1>1, <1>2, DoomedStays DEF SameUse, IsOpen
<1> QED BY <1>1, <1>3 DEF RemovesOnlyTheDeleted

LEMMA DeleteDoomed ==
  ASSUME TypeOK, Doomed, NamesFit, NEW c \in Contexts, SetDelete(c) \/ Cleanup(c)
  PROVE  Doomed' /\ RemovesOnlyTheDeleted
<1> DEFINE n == ctx[c].name
           p == ctx[c].path
<1>0. IsOpen(c) BY DEF SetDelete, Cleanup
<1>1. n \in Paths /\ p \in Paths BY <1>0, CleanedIsOK
<1>2. /\ truth \in [Paths -> Nat \cup {NULL}] /\ remote \in Buckets /\ deleting \subseteq Paths /\ ContextsOK(ctx)
  BY TypesApart
<1>3. CASE SetDelete(c)
  <2>1. UNCHANGED ctx BY <1>3 DEF SetDelete
  <2>2. Deleted(p) \/ DeleteFails(p) BY <1>3 DEF SetDelete
  <2>3. AsksToDelete(c)
    <3>1. file' = [file EXCEPT ![ctx[c].handle].pending = TRUE] BY <1>3 DEF SetDelete
    <3>2. ctx[c].handle \in DOMAIN file /\ DiskOK(file) BY <1>0, CleanedIsOK, TypesApart
    <3>3. file[ctx[c].handle] \in File BY <3>2 DEF DiskOK
    <3>4. file'[ctx[c].handle].pending BY <3>1, <3>2, <3>3 DEF File
    <3> QED BY <1>0, <2>1, <3>4 DEF AsksToDelete, IsOpen
  <2>4. \A r \in Paths \ {p} : remote'[r] = remote[r] BY <1>2, <2>2 DEF Deleted, DeleteFails, Buckets
  <2>5. RemovesOnlyTheDeleted BY <1>0, <2>3, <2>4, RemovesByContext
  <2>6. CASE UNCHANGED <<deleting, truth>> BY <2>1, <2>5, <2>6 DEF Doomed, IsOpen
  <2>7. CASE deleting' = deleting \cup {n} /\ truth' = [truth EXCEPT ![n] = NULL]
    <3>1. \A r \in Paths : truth'[r] = IF r = n THEN NULL ELSE truth[r] BY <1>2, <2>7
    <3> QED BY <1>0, <1>1, <1>2, <2>1, <2>5, <2>7, <3>1 DEF Doomed, IsOpen
  <2> QED BY <1>3, <2>5, <2>6, <2>7 DEF SetDelete
<1>4. CASE Cleanup(c)
  <2> DEFINE doc == ctx[c].deleteOnClose
             last == \A d \in Contexts \ {c} : IsOpen(d) => ctx[d].name # n
  <2>1. \A r \in Paths : truth'[r] = IF doc /\ r = n THEN NULL ELSE truth[r] BY <1>1, <1>2, <1>4 DEF Cleanup
  <2>2. \A d \in Contexts \ {c} : ctx'[d] = ctx[d] BY <1>4, CleanupKeeps
  <2>3. CASE last /\ (n \in deleting \/ doc)
    <3>1. CleanupDelete(c) BY <1>4, <2>3 DEF Cleanup
    <3>2. deleting' = deleting \ {n} /\ (Deleted(p) \/ DeleteFails(p) \/ UNCHANGED remote)
      BY <3>1 DEF CleanupDelete
    <3>3. Doomed'
      <4> SUFFICES ASSUME NEW m \in deleting'
                   PROVE  truth'[m] = NULL /\ \E d \in Contexts : IsOpen(d)' /\ ctx'[d].name = m
        BY DEF Doomed
      <4>1. m \in deleting /\ m # n /\ m \in Paths BY <1>2, <3>2
      <4>2. PICK d \in Contexts : IsOpen(d) /\ ctx[d].name = m BY <4>1 DEF Doomed
      <4>3. d # c BY <4>1, <4>2
      <4>4. IsOpen(d)' /\ ctx'[d].name = m BY <2>2, <4>2, <4>3 DEF IsOpen
      <4> QED BY <2>1, <4>1, <4>4 DEF Doomed
    <3>4. AsksToDelete(c) BY <2>3 DEF AsksToDelete
    <3>5. \A r \in Paths \ {p} : remote'[r] = remote[r] BY <1>2, <3>2 DEF Deleted, DeleteFails, Buckets
    <3>6. RemovesOnlyTheDeleted BY <1>0, <3>4, <3>5, RemovesByContext
    <3> QED BY <3>3, <3>6
  <2>4. CASE ~(last /\ (n \in deleting \/ doc))
    <3>1. /\ deleting' = IF doc THEN deleting \cup {n} ELSE deleting
          /\ UNCHANGED remote
      BY <1>4, <2>4 DEF Cleanup
    <3>2. Doomed'
      <4> SUFFICES ASSUME NEW m \in deleting'
                   PROVE  truth'[m] = NULL /\ \E d \in Contexts : IsOpen(d)' /\ ctx'[d].name = m
        BY DEF Doomed
      <4>1. m \in deleting \/ (doc /\ m = n) BY <3>1
      <4>2. m \in Paths BY <1>1, <1>2, <4>1
      <4>3. truth'[m] = NULL BY <2>1, <4>1, <4>2 DEF Doomed
      <4>4. \E d \in Contexts \ {c} : IsOpen(d) /\ ctx[d].name = m
        <5>1. CASE m = n BY <2>4, <4>1, <5>1
        <5>2. CASE m # n BY <4>1, <5>2 DEF Doomed
        <5> QED BY <5>1, <5>2
      <4> QED BY <2>2, <4>3, <4>4 DEF IsOpen
    <3> QED BY <3>1, <3>2 DEF RemovesOnlyTheDeleted
  <2> QED BY <2>3, <2>4
<1> QED BY <1>3, <1>4

LEMMA CloseDoomed ==
  ASSUME TypeOK, Doomed, NEW c \in Contexts, Close(c)
  PROVE  Doomed' /\ RemovesOnlyTheDeleted
<1>1. UNCHANGED <<deleting, truth>> /\ ~IsOpen(c) /\ \A d \in Contexts \ {c} : ctx'[d] = ctx[d] BY CloseKeeps
<1>2. Doomed' BY <1>1, DoomedStays DEF IsOpen
<1>3. remote \in Buckets BY TypesApart
<1>4. remote' = remote \/ \E o \in Object : remote' = [remote EXCEPT ![ctx[c].path] = o]
  <2>1. PICK u \in IF ctx[c].handle # NULL /\ ctx[c].modify THEN UploadWhenClosing(c) ELSE {NotUploaded(file)} :
          remote' = u.remote
    BY DEF Close
  <2>2. CASE u = NotUploaded(file) BY <2>1, <2>2 DEF NotUploaded
  <2>3. CASE ctx[c].handle # NULL /\ u \in UploadWhenClosing(c)
    <3>1. PICK o \in SyncContent(c) : u \in IF o.ok THEN PutObject(c, o.file) ELSE {NotUploaded(o.file)}
      BY <2>3 DEF UploadWhenClosing
    <3>2. CASE u = NotUploaded(o.file) BY <2>1, <3>2 DEF NotUploaded
    <3>3. CASE u \in PutObject(c, o.file) /\ u # NotUploaded(o.file)
      <4>1. u.remote = StoredObject(c, o.file)
        <5> DEFINE stored == StoredObject(c, o.file)
        <5>1. \/ u = [remote |-> stored, cache |-> headCache, heap |-> heap, file |-> o.file]
              \/ \E v \in HeadObject(ctx[c].path, stored, [headCache EXCEPT ![ctx[c].path] = NULL], heap) :
                   \E s \in world.deleteAfterUpload :
                     u = [remote |-> stored, cache |-> v.cache, heap |-> v.heap,
                          file |-> AfterUpload(o.file, ctx[c].handle, s)]
          BY <3>3, PutObjectGives
        <5> HIDE DEF stored
        <5>2. u.remote = stored BY <5>1
        <5> QED BY <5>2 DEF stored
      <4>2. InUse(c) BY CloseKeeps
      <4>3. DOMAIN o.file = LiveFiles /\ DiskOK(o.file) BY <2>3, <4>2, SyncContentFits
      <4>4. ctx[c].handle \in LiveFiles /\ ctx[c].entry \in LiveEntries
        BY <2>3, <4>2, Pointed, NullIsNoObject DEF FilesIn, EntriesIn, TypeOK
      <4>5. HeapOK(heap) /\ DOMAIN heap = LiveEntries BY TypesApart
      <4>6. o.file[ctx[c].handle].data \in Nat /\ heap[ctx[c].entry].stamp \in Nat
        BY <4>3, <4>4, <4>5 DEF DiskOK, HeapOK, File, Entry
      <4>7. [data |-> o.file[ctx[c].handle].data, stamp |-> heap[ctx[c].entry].stamp] \in Object
        BY <4>6 DEF Object
      <4> QED BY <2>1, <4>1, <4>7 DEF StoredObject
    <3> QED BY <3>1, <3>2, <3>3
  <2> QED BY <2>1, <2>2, <2>3
<1>5. NULL \notin Object BY NullIsNoObject
<1>6. RemovesOnlyTheDeleted BY <1>3, <1>4, <1>5 DEF RemovesOnlyTheDeleted, Buckets
<1> QED BY <1>2, <1>6

LEMMA RenameDoomed ==
  ASSUME TypeOK, Doomed, NamesFit, NEW c \in Contexts, NEW q \in Paths, Rename(c, q), q # ctx[c].path
  PROVE  Doomed' /\ RemovesOnlyTheDeleted
<1> DEFINE p == ctx[c].path
           n == ctx[c].name
           copied == [remote EXCEPT ![q] = remote[p]]
<1>1. IsOpen(c) /\ q \notin deleting /\ n \notin deleting /\ UNCHANGED deleting
  BY DEF Rename, AdmitsRename, Admits
<1>2. n \in Paths /\ p \in Paths BY <1>1, CleanedIsOK
<1>3. /\ truth \in [Paths -> Nat \cup {NULL}] /\ remote \in Buckets /\ deleting \subseteq Paths /\ ContextsOK(ctx)
  BY TypesApart
<1>4. PICK o \in CanCreateObject(q) :
        IF o.entry # NULL \/ mOpen[p] = Unregistered
        THEN UNCHANGED <<remote, ctx, truth>>
        ELSE RenameReleased(c, q, o)
  BY DEF Rename
<1>5. ASSUME remote' = remote \/ (remote[p] # NULL /\ remote' \in {copied, [copied EXCEPT ![p] = NULL]})
      PROVE  RemovesOnlyTheDeleted
  <2>1. CASE remote' = remote BY <2>1 DEF RemovesOnlyTheDeleted
  <2>2. CASE remote[p] # NULL /\ remote' \in {copied, [copied EXCEPT ![p] = NULL]}
    <3>1. remote'[q] = remote[p] BY <1>2, <1>3, <2>2 DEF Buckets
    <3>2. \A r \in Paths \ {p} : remote[r] # NULL => remote'[r] # NULL BY <1>2, <1>3, <2>2 DEF Buckets
    <3> QED BY <1>1, <3>1, <3>2, RemovesByContext
  <2> QED BY <1>5, <2>1, <2>2
<1>6. ASSUME UNCHANGED <<ctx, truth>> PROVE Doomed' BY <1>1, <1>6 DEF Doomed, IsOpen
<1>7. ASSUME /\ ctx' = [d \in Contexts |->
                         IF d = c
                         THEN [ctx[d] EXCEPT !.path = q, !.name = q, !.entry = NewEntry]
                         ELSE IF IsOpen(d) /\ ctx[d].name = ctx[c].name
                              THEN [ctx[d] EXCEPT !.name = q] ELSE ctx[d]]
             /\ truth' = [truth EXCEPT ![q] = truth[n], ![n] = NULL]
      PROVE  Doomed'
  <2>1. \A m \in deleting : truth'[m] = truth[m] BY <1>1, <1>2, <1>3, <1>7
  <2>2. ASSUME NEW d \in Contexts, NEW m \in deleting', IsOpen(d) /\ ctx[d].name = m
        PROVE  IsOpen(d)' /\ ctx'[d].name = m
    <3>1. ctx[d].name # n BY <1>1, <2>2
    <3>2. d # c BY <3>1
    <3>3. ctx'[d] = ctx[d] BY <1>7, <3>1, <3>2
    <3> QED BY <2>2, <3>3 DEF IsOpen
  <2> QED BY <1>1, <2>1, <2>2, DoomedStays
<1>8. CASE UNCHANGED <<remote, ctx, truth>> BY <1>5, <1>6, <1>8
<1>9. CASE RenameReleased(c, q, o)
  <2>1. remote' = remote \/ (remote[p] # NULL /\ remote' \in {copied, [copied EXCEPT ![p] = NULL]})
    BY <1>9 DEF RenameReleased
  <2>2. \/ UNCHANGED <<ctx, truth>>
        \/ /\ ctx' = [d \in Contexts |->
                         IF d = c
                         THEN [ctx[d] EXCEPT !.path = q, !.name = q, !.entry = NewEntry]
                         ELSE IF IsOpen(d) /\ ctx[d].name = ctx[c].name
                              THEN [ctx[d] EXCEPT !.name = q] ELSE ctx[d]]
           /\ truth' = [truth EXCEPT ![q] = truth[n], ![n] = NULL]
    BY <1>9 DEF RenameReleased
  <2> QED BY <1>5, <1>6, <1>7, <2>1, <2>2
<1> QED BY <1>4, <1>8, <1>9

LEMMA NextDoomed ==
  ASSUME TypeOK, Doomed, NamesFit, [Next]_vars
  PROVE  Doomed' /\ RemovesOnlyTheDeleted
<1>1. CASE UNCHANGED <<remote, ctx, deleting, truth>>
  BY <1>1 DEF Doomed, IsOpen, RemovesOnlyTheDeleted
<1>2. ASSUME NEW c \in Contexts, Callback(c) PROVE Doomed' /\ RemovesOnlyTheDeleted
  <2>1. ASSUME NEW p \in Paths, NEW doc \in BOOLEAN, Open(c, p, doc) \/ Create(c, p, doc)
        PROVE Doomed' /\ RemovesOnlyTheDeleted
    BY <2>1, OpenDoomed
  <2>2. CASE Work(c) BY <2>2, WorkDoomed
  <2>3. CASE SetDelete(c) \/ Cleanup(c) BY <2>3, DeleteDoomed
  <2>4. CASE Close(c) BY <2>4, CloseDoomed
  <2>5. ASSUME NEW q \in Paths, Rename(c, q) PROVE Doomed' /\ RemovesOnlyTheDeleted
    <3>1. CASE q = ctx[c].path BY <1>1, <2>5, <3>1 DEF Rename
    <3>2. CASE q # ctx[c].path BY <2>5, <3>2, RenameDoomed
    <3> QED BY <3>1, <3>2
  <2> QED BY <1>2, <2>1, <2>2, <2>3, <2>4, <2>5 DEF Callback, Work
<1>3. ASSUME NEW p \in Paths, StoredElsewhere(p) PROVE Doomed' /\ RemovesOnlyTheDeleted
  <2>1. /\ truth \in [Paths -> Nat \cup {NULL}] /\ remote \in Buckets /\ deleting \subseteq Paths /\ clock' \in Nat
    BY <1>3, TypesApart DEF StoredElsewhere
  <2>2. p \notin deleting BY <1>3 DEF Doomed, StoredElsewhere, InUse, IsOpen
  <2>3. \A m \in deleting : truth'[m] = truth[m] BY <1>3, <2>1, <2>2 DEF StoredElsewhere
  <2>4. Doomed' BY <1>3, <2>3, DoomedStays DEF StoredElsewhere, IsOpen
  <2>5. [data |-> clock', stamp |-> clock'] \in Object BY <2>1 DEF Object
  <2>6. \A r \in Paths : remote[r] # NULL => remote'[r] # NULL
    BY <1>3, <2>1, <2>5, NullIsNoObject DEF StoredElsewhere, Buckets
  <2> QED BY <2>4, <2>6 DEF RemovesOnlyTheDeleted
<1>4. ASSUME NEW p \in Paths, LookUp(p) \/ Expire(p) PROVE Doomed' /\ RemovesOnlyTheDeleted
  BY <1>1, <1>4 DEF LookUp, Expire
<1>5. CASE UNCHANGED vars BY <1>1, <1>5 DEF vars
<1> QED BY <1>2, <1>3, <1>4, <1>5 DEF Next

LEMMA NextNames ==
  ASSUME TypeOK, NamesFit, [Next]_vars
  PROVE  NamesFit'
<1>1. world' = world BY DEF Next, vars
<1> SUFFICES ASSUME ~May("shared"), NEW d \in Contexts, InUse(d)' PROVE ctx'[d].name = ctx'[d].path
  BY <1>1 DEF NamesFit, May
<1>2. \A e \in Contexts : InUse(e) => ctx[e].name = ctx[e].path BY DEF NamesFit
<1>3. ASSUME ctx'[d].state = ctx[d].state, ctx'[d].path = ctx[d].path, ctx'[d].name = ctx[d].name
      PROVE  ctx'[d].name = ctx'[d].path
  BY <1>2, <1>3 DEF InUse
<1>4. ASSUME ctx'[d] = ctx[d] PROVE ctx'[d].name = ctx'[d].path BY <1>3, <1>4
<1>5. ASSUME NEW c \in Contexts, Callback(c) PROVE ctx'[d].name = ctx'[d].path
  <2>1. ASSUME NEW p \in Paths, NEW doc \in BOOLEAN, Open(c, p, doc) \/ Create(c, p, doc)
        PROVE  ctx'[d].name = ctx'[d].path
    BY <1>4, <2>1, OpenContexts
  <2>2. CASE Work(c) BY <1>3, <2>2, WorkKeeps DEF SameUse
  <2>3. CASE SetDelete(c) BY <1>4, <2>3 DEF SetDelete
  <2>4. CASE Cleanup(c)
    <3>1. CASE d = c
      <4>1. InUse(c) BY <2>4 DEF Cleanup, IsOpen, InUse
      <4> QED BY <1>2, <2>4, <3>1, <4>1, CleanupKeeps
    <3>2. CASE d # c BY <1>4, <2>4, <3>2, CleanupKeeps
    <3> QED BY <3>1, <3>2
  <2>5. CASE Close(c) BY <1>4, <2>5, CloseKeeps
  <2>6. ASSUME NEW q \in Paths, Rename(c, q) PROVE ctx'[d].name = ctx'[d].path
    <3>1. UNCHANGED ctx \/ Renamed(c, q)
      <4>1. IsOpen(c) BY <2>6 DEF Rename
      <4>2. CASE q = ctx[c].path BY <2>6, <4>2 DEF Rename
      <4>3. CASE q # ctx[c].path
        <5>1. PICK o \in CanCreateObject(q) :
                IF o.entry # NULL \/ mOpen[ctx[c].path] = Unregistered THEN UNCHANGED ctx ELSE RenameReleased(c, q, o)
          BY <2>6, <4>3 DEF Rename
        <5> QED BY <4>1, <5>1, RenameContexts DEF RenameReleased
      <4> QED BY <4>2, <4>3
    <3>2. CASE UNCHANGED ctx BY <1>4, <3>2
    <3>3. CASE Renamed(c, q) /\ d = c BY <3>3 DEF Renamed
    <3>4. CASE Renamed(c, q) /\ d # c
      <4>1. InUse(c) BY <2>6 DEF Rename, IsOpen, InUse
      <4>2. InUse(d) => ctx[d].path # ctx[c].path BY <2>6, <3>4 DEF Rename, AdmitsRename
      <4>3. ~(IsOpen(d) /\ ctx[d].name = ctx[c].name) BY <1>2, <4>1, <4>2 DEF IsOpen, InUse
      <4> QED BY <1>3, <3>4, <4>3 DEF Renamed
    <3> QED BY <3>1, <3>2, <3>3, <3>4
  <2> QED BY <1>5, <2>1, <2>2, <2>3, <2>4, <2>5, <2>6 DEF Callback, Work
<1>6. ASSUME NEW p \in Paths, LookUp(p) \/ Expire(p) \/ StoredElsewhere(p) PROVE ctx'[d].name = ctx'[d].path
  BY <1>4, <1>6 DEF LookUp, Expire, StoredElsewhere
<1>7. CASE UNCHANGED vars BY <1>4, <1>7 DEF vars
<1> QED BY <1>5, <1>6, <1>7 DEF Next

LEMMA InitLeak ==
  ASSUME Init
  PROVE  NoEntryLeak /\ Doomed /\ NamesFit
<1>1. \A p \in Paths : mOpen[p].ref = 0 BY DEF Init, Unregistered
<1>2. \A p \in Paths : Users(p) = {} BY DEF Init, Users, InUse, NoContext
<1>3. \A p \in Paths : Cardinality(Users(p)) = 0 BY <1>2, FS_EmptySet
<1>4. \A c \in Contexts : ~InUse(c) BY DEF Init, InUse, NoContext
<1> QED BY <1>1, <1>3, <1>4, LeakIsUsers DEF Init, Doomed, NamesFit


------------------------------------------------------------------------------
(* Now for what holds when it is calm.  Each path is in one of four        *)
(* states, told apart by who uses it; in each of them the object, the      *)
(* cache file, the entries and what the user stored go together, by way of *)
(* h: the content that was stored with a time stamp.                       *)
RemoteOK(h, p) ==
  remote[p] # NULL => remote[p].stamp <= clock /\ remote[p].data = h[remote[p].stamp]

FileOK(h, p) ==
  cacheAt[p] # NULL =>
    /\ file[cacheAt[p]].stamp <= clock
    /\ file[cacheAt[p]].data \in {0, h[file[cacheAt[p]].stamp]}
    /\ file[cacheAt[p]].pending => \E c \in Users(p) : ctx[c].handle # NULL

EntryOK(p) == mOpen[p].entry # NULL => heap[mOpen[p].entry].stamp <= clock

HeadOK(h, p) ==
  /\ headCache[p] = ABSENT => remote[p] = NULL
  /\ headCache[p] \in Entries =>
       /\ remote[p] # NULL
       /\ heap[headCache[p]].stamp <= clock
       /\ headCache[p] # mOpen[p].entry =>
            /\ heap[headCache[p]].sized = (remote[p].data # 0)
            /\ h[heap[headCache[p]].stamp] = remote[p].data

UsersOK(p) ==
  \A c \in Users(p) : ctx[c].name = p /\ (ctx[c].handle # NULL => ctx[c].handle = cacheAt[p])

Matches(p) == remote[p] # NULL /\ remote[p].data = truth[p]

Gone(p) == truth[p] = NULL /\ remote[p] = NULL /\ headCache[p] \in {NULL, ABSENT}

(* every context of p is counted and has a handle; one that deletes p on   *)
(* close is the only open one                                              *)
Counted(p) ==
  /\ mOpen[p].ref = Cardinality(Users(p))
  /\ \A c \in Users(p) :
       /\ ctx[c].handle # NULL /\ ctx[c].entry = mOpen[p].entry
       /\ ctx[c].deleteOnClose => IsOpen(c) /\ \A d \in Users(p) \ {c} : ~IsOpen(d)

(* nobody uses p                                                           *)
Idle(p) ==
  /\ Users(p) = {} /\ p \notin deleting /\ mOpen[p] = Unregistered
  /\ IF truth[p] = NULL THEN remote[p] = NULL ELSE Matches(p)

(* p is open, or still to be closed, and not deleted                       *)
Live(h, p) ==
  /\ Users(p) # {} /\ p \notin deleting /\ Counted(p)
  /\ ~file[cacheAt[p]].pending
  /\ truth[p] # NULL
  /\ file[cacheAt[p]].stamp = heap[mOpen[p].entry].stamp
  /\ heap[mOpen[p].entry].sized = (truth[p] # 0)
  /\ h[heap[mOpen[p].entry].stamp] = truth[p]
  /\ file[cacheAt[p]].data = 0 /\ truth[p] # 0 => Matches(p)
  /\ Matches(p) \/ \E c \in Users(p) : ctx[c].modify

(* p is to be deleted with its last handle                                 *)
Condemned(p) ==
  /\ p \in deleting /\ Counted(p) /\ Gone(p)
  /\ \E c \in Users(p) : IsOpen(c)
  /\ file[cacheAt[p]].pending

(* p was deleted, and WinFsp has still to close it                         *)
Dead(p) ==
  /\ Users(p) # {} /\ p \notin deleting /\ Gone(p)
  /\ \A c \in Users(p) :
       /\ ~IsOpen(c)
       /\ ctx[c].handle # NULL => file[ctx[c].handle].pending /\ ~ctx[c].deleteOnClose

PathOK(h, p) ==
  /\ RemoteOK(h, p) /\ FileOK(h, p) /\ EntryOK(p) /\ HeadOK(h, p) /\ UsersOK(p)
  /\ Idle(p) \/ Live(h, p) \/ Condemned(p) \/ Dead(p)

(* No two paths share a cache file or a DirEntry.                          *)
Apart ==
  \A p, q \in Paths :
    /\ cacheAt[p] # NULL /\ cacheAt[p] = cacheAt[q] => p = q
    /\ mOpen[p].entry # NULL /\ mOpen[p].entry = mOpen[q].entry => p = q
    /\ headCache[p] \in Entries /\ headCache[p] \in {headCache[q], mOpen[q].entry} => p = q

Contents == [Nat -> Nat]

CalmInv == Calm => Apart /\ \E h \in Contents : \A p \in Paths : PathOK(h, p)


(* The types of what belongs to a path.                                    *)
Typed(p) ==
  /\ remote[p] # NULL => remote[p] \in Object /\ remote[p].data \in Nat /\ remote[p].stamp \in Nat
  /\ truth[p] \in Nat \cup {NULL}
  /\ cacheAt[p] # NULL =>
       /\ cacheAt[p] \in LiveFiles /\ file[cacheAt[p]] \in File /\ file[cacheAt[p]].data \in Nat
       /\ file[cacheAt[p]].stamp \in Nat /\ file[cacheAt[p]].pending \in BOOLEAN
  /\ mOpen[p].entry # NULL =>
       /\ mOpen[p].entry \in LiveEntries /\ heap[mOpen[p].entry] \in Entry
       /\ heap[mOpen[p].entry].stamp \in Nat /\ heap[mOpen[p].entry].sized \in BOOLEAN
  /\ headCache[p] \in Entries =>
       /\ headCache[p] \in LiveEntries
       /\ heap[headCache[p]].stamp \in Nat /\ heap[headCache[p]].sized \in BOOLEAN
  /\ headCache[p] \in Entries \cup {NULL, ABSENT}
  /\ mOpen[p].ref \in Nat
  /\ mOpen[p] = Unregistered <=> mOpen[p].ref = 0
  /\ mOpen[p] = Unregistered <=> mOpen[p].entry = NULL

UserTyped(c) ==
  /\ ctx[c].handle # NULL => ctx[c].handle \in LiveFiles
  /\ IsOpen(c) => ctx[c].handle # NULL /\ InUse(c)
  /\ InUse(c) => ctx[c].path \in Paths /\ c \in Users(ctx[c].path) /\ ctx[c].deleteOnClose \in BOOLEAN
                 /\ ctx[c] \in Context
  /\ ~InUse(c) => ctx[c] = NoContext /\ ctx[c].handle = NULL /\ ctx[c].path = NULL

AllTyped == clock \in Nat /\ (\A p \in Paths : Typed(p)) /\ (\A c \in Contexts : UserTyped(c))

LEMMA AllTypes == TypeOK => AllTyped
<1> SUFFICES ASSUME TypeOK PROVE AllTyped OBVIOUS
<1>1. /\ remote \in Buckets /\ cacheAt \in [Paths -> Files \cup {NULL}]
      /\ DOMAIN file = LiveFiles /\ DiskOK(file) /\ mOpen \in Tables /\ ContextsOK(ctx)
      /\ truth \in [Paths -> Nat \cup {NULL}] /\ clock \in Nat
      /\ headCache \in HeadCaches /\ DOMAIN heap = LiveEntries /\ HeapOK(heap)
  BY TypesApart
<1>2. EntriesIn(mOpen, headCache, ctx, LiveEntries) /\ FilesIn(cacheAt, ctx, LiveFiles) BY Pointed
<1>3. ASSUME NEW p \in Paths PROVE Typed(p)
  <2>1. remote[p] # NULL => remote[p] \in Object /\ remote[p].data \in Nat /\ remote[p].stamp \in Nat
    BY <1>1 DEF Buckets, Object
  <2>2. cacheAt[p] # NULL =>
       /\ cacheAt[p] \in LiveFiles /\ file[cacheAt[p]] \in File /\ file[cacheAt[p]].data \in Nat
       /\ file[cacheAt[p]].stamp \in Nat /\ file[cacheAt[p]].pending \in BOOLEAN
    BY <1>1, <1>2 DEF FilesIn, DiskOK, File
  <2>3. \A e \in LiveEntries : heap[e] \in Entry /\ heap[e].stamp \in Nat /\ heap[e].sized \in BOOLEAN
    BY <1>1 DEF HeapOK, Entry
  <2>4. headCache[p] \in Entries \cup {NULL, ABSENT} BY <1>1 DEF HeadCaches
  <2>5. headCache[p] \in Entries => headCache[p] \in LiveEntries BY <1>2, NullIsNoObject DEF EntriesIn
  <2>6. mOpen[p].entry # NULL => mOpen[p].entry \in LiveEntries BY <1>2 DEF EntriesIn
  <2>7. /\ mOpen[p].ref \in Nat
        /\ mOpen[p] = Unregistered <=> mOpen[p].ref = 0
        /\ mOpen[p] = Unregistered <=> mOpen[p].entry = NULL
    BY <1>1, TableFits
  <2> QED BY <1>1, <2>1, <2>2, <2>3, <2>4, <2>5, <2>6, <2>7 DEF Typed
<1>4. ASSUME NEW c \in Contexts PROVE UserTyped(c)
  <2>1. ContextOK(ctx[c]) BY <1>1 DEF ContextsOK
  <2>2. ctx[c].handle # NULL => ctx[c].handle \in LiveFiles BY <1>2 DEF FilesIn
  <2>3. InUse(c) => ctx[c].path \in Paths /\ ctx[c].deleteOnClose \in BOOLEAN /\ ctx[c] \in Context
    BY <2>1 DEF InUse, ContextOK, Context
  <2>4. ~InUse(c) => ctx[c] = NoContext /\ ctx[c].handle = NULL /\ ctx[c].path = NULL
    BY <2>1 DEF InUse, ContextOK, NoContext
  <2>5. IsOpen(c) => ctx[c].handle # NULL /\ InUse(c)
    BY <2>1 DEF InUse, ContextOK, IsOpen
  <2> QED BY <2>2, <2>3, <2>4, <2>5 DEF UserTyped, Users
<1> QED BY <1>1, <1>3, <1>4 DEF AllTyped

LEMMA Types ==
  ASSUME TypeOK
  PROVE  clock \in Nat /\ (\A p \in Paths : Typed(p)) /\ (\A c \in Contexts : UserTyped(c))
BY AllTypes DEF AllTyped

LEMMA TypesThen ==
  ASSUME TypeOK'
  PROVE  clock' \in Nat /\ (\A p \in Paths : Typed(p)') /\ (\A c \in Contexts : UserTyped(c)')
<1>1. TypeOK' => AllTyped' BY AllTypes, PTL
<1> QED BY <1>1 DEF AllTyped

(* A step that touches nothing but what belongs to the paths in S.         *)
OnlyAt(S) ==
  /\ \A r \in Paths \ S :
       /\ remote'[r] = remote[r] /\ truth'[r] = truth[r] /\ mOpen'[r] = mOpen[r]
       /\ headCache'[r] = headCache[r] /\ cacheAt'[r] = cacheAt[r]
       /\ r \in deleting' <=> r \in deleting
  /\ \A d \in Contexts :
       ctx'[d] = ctx[d] \/ (ctx[d].path \in S \cup {NULL} /\ ctx'[d].path \in S \cup {NULL})
  /\ \A e \in LiveEntries \cap LiveEntries' : (\A s \in S : mOpen[s].entry # e) => heap'[e] = heap[e]
  /\ \A f \in LiveFiles \cap LiveFiles' : (\A s \in S : cacheAt[s] # f) => file'[f] = file[f]
  /\ clock <= clock'

(* everything of r is as it was, but what is cached of its object          *)
AsItWas(r) ==
  /\ remote'[r] = remote[r] /\ truth'[r] = truth[r] /\ mOpen'[r] = mOpen[r]
  /\ cacheAt'[r] = cacheAt[r] /\ (r \in deleting' <=> r \in deleting)
  /\ Users(r)' = Users(r) /\ \A d \in Users(r) : ctx'[d] = ctx[d]
  /\ cacheAt[r] # NULL => file'[cacheAt[r]] = file[cacheAt[r]]
  /\ mOpen[r].entry # NULL => heap'[mOpen[r].entry] = heap[mOpen[r].entry]
  /\ clock <= clock'

SameHead(r) ==
  /\ headCache'[r] = headCache[r]
  /\ headCache[r] \in Entries => heap'[headCache[r]] = heap[headCache[r]]

LEMMA OnlyAtSame ==
  ASSUME TypeOK, TypeOK', Apart, NEW S \in SUBSET Paths, OnlyAt(S), NEW r \in Paths \ S
  PROVE  AsItWas(r) /\ SameHead(r)
<1>1. Typed(r) /\ Typed(r)' /\ clock \in Nat BY Types, TypesThen
<1>2. /\ remote'[r] = remote[r] /\ truth'[r] = truth[r] /\ mOpen'[r] = mOpen[r]
      /\ headCache'[r] = headCache[r] /\ cacheAt'[r] = cacheAt[r]
      /\ r \in deleting' <=> r \in deleting
  BY DEF OnlyAt
<1>3. Users(r)' = Users(r) /\ \A d \in Users(r) : ctx'[d] = ctx[d]
  <2>1. ASSUME NEW d \in Contexts PROVE d \in Users(r)' <=> d \in Users(r)
    <3>1. CASE ctx'[d] = ctx[d] BY <3>1 DEF Users, InUse
    <3>2. CASE ctx[d].path \in S \cup {NULL} /\ ctx'[d].path \in S \cup {NULL}
      BY <3>2, NullIsNoObject DEF Users
    <3> QED BY <3>1, <3>2 DEF OnlyAt
  <2>2. \A d \in Users(r) : ctx'[d] = ctx[d]
    BY NullIsNoObject DEF Users, OnlyAt
  <2>3. \A d : d \in Users(r)' => d \in Contexts BY DEF Users
  <2>4. \A d : d \in Users(r) => d \in Contexts BY DEF Users
  <2>5. Users(r)' = Users(r) BY <2>1, <2>3, <2>4
  <2> QED BY <2>2, <2>5
<1>4. cacheAt[r] # NULL => file'[cacheAt[r]] = file[cacheAt[r]]
  <2> SUFFICES ASSUME cacheAt[r] # NULL PROVE file'[cacheAt[r]] = file[cacheAt[r]] OBVIOUS
  <2>1. cacheAt[r] \in LiveFiles \cap LiveFiles' BY <1>1, <1>2 DEF Typed
  <2>2. \A s \in S : cacheAt[s] # cacheAt[r] BY DEF Apart
  <2> QED BY <2>1, <2>2 DEF OnlyAt
<1>5. mOpen[r].entry # NULL => heap'[mOpen[r].entry] = heap[mOpen[r].entry]
  <2> SUFFICES ASSUME mOpen[r].entry # NULL PROVE heap'[mOpen[r].entry] = heap[mOpen[r].entry] OBVIOUS
  <2>1. mOpen[r].entry \in LiveEntries \cap LiveEntries' BY <1>1, <1>2 DEF Typed
  <2>2. \A s \in S : mOpen[s].entry # mOpen[r].entry BY DEF Apart
  <2> QED BY <2>1, <2>2 DEF OnlyAt
<1>6. headCache[r] \in Entries => heap'[headCache[r]] = heap[headCache[r]]
  <2> SUFFICES ASSUME headCache[r] \in Entries PROVE heap'[headCache[r]] = heap[headCache[r]] OBVIOUS
  <2>1. headCache[r] \in LiveEntries \cap LiveEntries' BY <1>1, <1>2 DEF Typed
  <2>2. \A s \in S : mOpen[s].entry # headCache[r] BY DEF Apart
  <2> QED BY <2>1, <2>2 DEF OnlyAt
<1> QED BY <1>2, <1>3, <1>4, <1>5, <1>6 DEF AsItWas, SameHead, OnlyAt

(* two histories that agree on what has been given out                     *)
Agree(g, h) == \A t \in Nat : t <= clock => g[t] = h[t]

LEMMA UseStays ==
  ASSUME TypeOK, TypeOK', NEW h, NEW g, NEW r \in Paths, AsItWas(r), HeadOK(g, r)', Agree(g, h), PathOK(h, r)
  PROVE  PathOK(g, r)'
<1>1. Typed(r) /\ Typed(r)' /\ clock \in Nat /\ clock' \in Nat BY Types, TypesThen
<1>2. RemoteOK(g, r)' BY <1>1 DEF PathOK, RemoteOK, AsItWas, Agree, Typed
<1>3. FileOK(g, r)'
  <2>1. CASE cacheAt[r] = NULL BY <2>1 DEF FileOK, AsItWas
  <2>2. CASE cacheAt[r] # NULL
    <3>1. file'[cacheAt'[r]] = file[cacheAt[r]] /\ cacheAt'[r] # NULL BY <2>2 DEF AsItWas
    <3>2. /\ file[cacheAt[r]].stamp <= clock
          /\ file[cacheAt[r]].data \in {0, g[file[cacheAt[r]].stamp]}
          /\ file[cacheAt[r]].pending => \E c \in Users(r) : ctx[c].handle # NULL
      BY <1>1, <2>2 DEF PathOK, FileOK, Agree, Typed
    <3>3. file[cacheAt[r]].pending => \E c \in Users(r)' : ctx'[c].handle # NULL
      BY <3>2 DEF AsItWas
    <3>4. file[cacheAt[r]].stamp <= clock' BY <1>1, <2>2, <3>2 DEF AsItWas, Typed
    <3> QED BY <3>1, <3>2, <3>3, <3>4 DEF FileOK
  <2> QED BY <2>1, <2>2
<1>4. EntryOK(r)' BY <1>1 DEF PathOK, EntryOK, AsItWas, Typed
<1>5. HeadOK(g, r)' OBVIOUS
<1>6. UsersOK(r)' BY DEF PathOK, UsersOK, AsItWas
<1>7. Counted(r) => Counted(r)'
  <2> SUFFICES ASSUME Counted(r) PROVE Counted(r)' OBVIOUS
  <2>1. mOpen'[r].ref = Cardinality(Users(r)') BY DEF Counted, AsItWas
  <2>2. \A c \in Users(r) : IsOpen(c)' <=> IsOpen(c) BY DEF AsItWas, IsOpen
  <2> QED BY <2>1, <2>2 DEF Counted, AsItWas
<1>8. Matches(r) <=> Matches(r)' BY DEF Matches, AsItWas
<1>9. Gone(r) => Gone(r)' BY <1>1 DEF Gone, AsItWas, HeadOK, Typed
<1>10. CASE Idle(r) BY <1>2, <1>3, <1>4, <1>5, <1>6, <1>8, <1>10 DEF PathOK, Idle, AsItWas
<1>11. CASE Live(h, r)
  <2>1. PICK c \in Users(r) : c \in Users(r) BY <1>11 DEF Live
  <2>2. cacheAt[r] # NULL /\ mOpen[r].entry # NULL
    <3>1. ctx[c].handle # NULL /\ ctx[c].handle = cacheAt[r] BY <1>11, <2>1 DEF Live, Counted, PathOK, UsersOK
    <3>2. mOpen[r].ref # 0 BY <1>11, <2>1, UserCount, FS_EmptySet DEF Live, Counted
    <3> QED BY <1>1, <3>1, <3>2 DEF Typed
  <2>3. file'[cacheAt'[r]] = file[cacheAt[r]] /\ heap'[mOpen'[r].entry] = heap[mOpen[r].entry]
    BY <2>2 DEF AsItWas
  <2>4. heap[mOpen[r].entry].stamp \in Nat /\ heap[mOpen[r].entry].stamp <= clock
    BY <1>1, <2>2 DEF Typed, PathOK, EntryOK
  <2>5. g[heap[mOpen[r].entry].stamp] = truth[r] BY <1>11, <2>4 DEF Live, Agree
  <2>6. Matches(r)' \/ \E d \in Users(r)' : ctx'[d].modify BY <1>8, <1>11 DEF Live, AsItWas
  <2>7. Live(g, r)' BY <1>7, <1>8, <1>11, <2>3, <2>5, <2>6 DEF Live, AsItWas
  <2> QED BY <1>2, <1>3, <1>4, <1>5, <1>6, <2>7 DEF PathOK
<1>12. CASE Condemned(r)
  <2>1. PICK c \in Users(r) : IsOpen(c) BY <1>12 DEF Condemned
  <2>2. cacheAt[r] # NULL BY <1>12, <2>1 DEF Condemned, Counted, PathOK, UsersOK
  <2>3. file'[cacheAt'[r]] = file[cacheAt[r]] BY <2>2 DEF AsItWas
  <2>4. c \in Users(r)' /\ IsOpen(c)' BY <2>1 DEF AsItWas, IsOpen
  <2>5. Condemned(r)' BY <1>7, <1>9, <1>12, <2>3, <2>4 DEF Condemned, AsItWas
  <2> QED BY <1>2, <1>3, <1>4, <1>5, <1>6, <2>5 DEF PathOK
<1>13. CASE Dead(r)
  <2>1. ASSUME NEW c \in Users(r)'
        PROVE  ~IsOpen(c)' /\ (ctx'[c].handle # NULL => file'[ctx'[c].handle].pending /\ ~ctx'[c].deleteOnClose)
    <3>1. c \in Users(r) /\ ctx'[c] = ctx[c] BY DEF AsItWas
    <3>2. ctx[c].handle # NULL => file'[ctx[c].handle] = file[ctx[c].handle] BY <3>1 DEF PathOK, UsersOK, AsItWas
    <3> QED BY <1>13, <3>1, <3>2 DEF Dead, IsOpen
  <2>2. Dead(r)' BY <1>9, <1>13, <2>1 DEF Dead, AsItWas
  <2> QED BY <1>2, <1>3, <1>4, <1>5, <1>6, <2>2 DEF PathOK
<1> QED BY <1>10, <1>11, <1>12, <1>13 DEF PathOK

LEMMA SameStays ==
  ASSUME TypeOK, TypeOK', NEW r \in Paths, AsItWas(r), SameHead(r), NEW h, NEW g, Agree(g, h), PathOK(h, r)
  PROVE  PathOK(g, r)'
<1>1. Typed(r) /\ Typed(r)' /\ clock \in Nat /\ clock' \in Nat BY Types, TypesThen
<1>2. HeadOK(g, r)' BY <1>1 DEF PathOK, HeadOK, AsItWas, SameHead, Agree, Typed
<1> QED BY <1>2, UseStays

(* When it is calm a step has to answer only for the paths it touches.     *)
Fit == Apart /\ \E h \in Contents : \A p \in Paths : PathOK(h, p)

LEMMA StepFits ==
  ASSUME TypeOK, TypeOK', Apart, Apart', NEW S \in SUBSET Paths, OnlyAt(S),
         NEW h \in Contents, NEW g \in Contents, Agree(g, h),
         \A r \in Paths : PathOK(h, r), \A s \in S : PathOK(g, s)'
  PROVE  Fit'
<1>1. ASSUME NEW r \in Paths PROVE PathOK(g, r)'
  <2>1. CASE r \in S BY <2>1
  <2>2. CASE r \notin S BY <2>2, OnlyAtSame, SameStays
  <2> QED BY <2>1, <2>2
<1> QED BY <1>1 DEF Fit


LEMMA ApartStays ==
  ASSUME TypeOK, TypeOK', Apart, NEW p \in Paths,
         \A r \in Paths \ {p} : cacheAt'[r] = cacheAt[r] /\ mOpen'[r] = mOpen[r] /\ headCache'[r] = headCache[r],
         cacheAt'[p] \in {NULL, cacheAt[p], NewFile},
         mOpen'[p].entry \in {NULL, mOpen[p].entry, headCache[p], NewEntry} \ {ABSENT},
         headCache'[p] \in {NULL, ABSENT, headCache[p], NewEntry}
  PROVE  Apart'
<1>1. \A r \in Paths : Typed(r) BY Types
<1>2. \A r \in Paths : cacheAt[r] # NewFile
  BY <1>1, FileLeft DEF Typed
<1>3. \A r \in Paths : mOpen[r].entry # NewEntry /\ headCache[r] # NewEntry
  BY <1>1, EntryLeft DEF Typed
<1>4. NewFile # NULL /\ NewEntry \notin {NULL, ABSENT} /\ {NULL, ABSENT} \cap Entries = {} /\ NULL # ABSENT
  BY FileLeft, EntryLeft, NullIsNoObject
<1> SUFFICES ASSUME NEW r \in Paths, NEW s \in Paths
             PROVE  /\ cacheAt'[r] # NULL /\ cacheAt'[r] = cacheAt'[s] => r = s
                    /\ mOpen'[r].entry # NULL /\ mOpen'[r].entry = mOpen'[s].entry => r = s
                    /\ headCache'[r] \in Entries /\ headCache'[r] \in {headCache'[s], mOpen'[s].entry} => r = s
  BY DEF Apart
<1>6. cacheAt'[r] # NULL /\ cacheAt'[r] = cacheAt'[s] => r = s
  BY <1>2, <1>4 DEF Apart
<1>7. mOpen'[r].entry # NULL /\ mOpen'[r].entry = mOpen'[s].entry => r = s
  <2> SUFFICES ASSUME mOpen'[r].entry # NULL, mOpen'[r].entry = mOpen'[s].entry, r # s PROVE FALSE OBVIOUS
  <2>1. CASE r # p /\ s # p BY <2>1 DEF Apart
  <2>2. \A t \in Paths \ {p} : mOpen[t].entry # NULL => mOpen'[p].entry # mOpen[t].entry
    <3> SUFFICES ASSUME NEW t \in Paths \ {p}, mOpen[t].entry # NULL, mOpen'[p].entry = mOpen[t].entry PROVE FALSE
      OBVIOUS
    <3>1. mOpen[t].entry \in Entries BY <1>1, EntryLeft DEF Typed
    <3>2. CASE mOpen'[p].entry = headCache[p] BY <3>1, <3>2 DEF Apart
    <3>3. CASE mOpen'[p].entry \in {NULL, mOpen[p].entry, NewEntry} BY <1>3, <3>3 DEF Apart
    <3> QED BY <3>2, <3>3
  <2>3. CASE r = p BY <2>2, <2>3
  <2>4. CASE s = p BY <2>2, <2>4
  <2> QED BY <2>1, <2>3, <2>4
<1>8. headCache'[r] \in Entries /\ headCache'[r] \in {headCache'[s], mOpen'[s].entry} => r = s
  <2> SUFFICES ASSUME headCache'[r] \in Entries, headCache'[r] \in {headCache'[s], mOpen'[s].entry}, r # s
               PROVE FALSE
    OBVIOUS
  <2>1. CASE r # p /\ s # p BY <2>1 DEF Apart
  <2>2. CASE r = p
    <3>1. headCache'[p] \in {headCache[p], NewEntry} /\ headCache'[s] = headCache[s] /\ mOpen'[s] = mOpen[s]
      BY <1>4, <2>2
    <3>2. CASE headCache'[p] = NewEntry BY <1>3, <2>2, <3>1, <3>2
    <3>3. CASE headCache'[p] = headCache[p] BY <2>2, <3>1, <3>3 DEF Apart
    <3> QED BY <3>1, <3>2, <3>3
  <2>3. CASE s = p
    <3>1. headCache'[r] = headCache[r] /\ headCache[r] \in Entries BY <2>3
    <3>2. CASE headCache[r] = headCache'[p] BY <1>3, <1>4, <2>3, <3>1, <3>2 DEF Apart
    <3>3. CASE headCache[r] = mOpen'[p].entry BY <1>3, <1>4, <2>3, <3>1, <3>3 DEF Apart
    <3> QED BY <2>3, <3>1, <3>2, <3>3
  <2> QED BY <2>1, <2>2, <2>3
<1> QED BY <1>6, <1>7, <1>8

------------------------------------------------------------------------------
(* What a lookup of p answers when it is calm: what the bucket has.        *)
Truthful(o, h, p) ==
  /\ o.cache[p] \in {ABSENT, headCache[p], NewEntry}
  /\ o.entry = NULL => remote[p] = NULL /\ o.cache[p] = ABSENT
  /\ o.entry # NULL =>
       /\ remote[p] # NULL /\ o.cache[p] = o.entry /\ o.entry \in {headCache[p], NewEntry}
       /\ o.heap[o.entry].stamp <= clock
       /\ o.heap[o.entry].sized = (remote[p].data # 0)
       /\ h[o.heap[o.entry].stamp] = remote[p].data

LEMMA CalmLookup ==
  ASSUME TypeOK, Calm, NEW p \in Paths, NEW h, HeadOK(h, p), RemoteOK(h, p), mOpen[p].entry = NULL,
         NEW o \in HeadObject(p, remote, headCache, heap)
  PROVE  Looked(o, p, headCache) /\ Truthful(o, h, p)
<1>1. Looked(o, p, headCache) BY LookedHere
<1>2. headCache \in HeadCaches /\ ~May("head") /\ Typed(p) /\ clock \in Nat /\ DOMAIN heap = LiveEntries
  BY TypesApart, Types DEF Calm, May
<1>3. NewEntry \notin {NULL, ABSENT} /\ NULL \notin Entries /\ ABSENT \notin Entries /\ NULL # ABSENT
  BY EntryLeft, NullIsNoObject
<1>4. CASE headCache[p] = ABSENT /\ o.entry = NULL /\ o.cache = headCache /\ o.heap = heap
  BY <1>1, <1>3, <1>4 DEF HeadOK, Truthful
<1>5. CASE headCache[p] \in Entries /\ o.entry = headCache[p] /\ o.cache = headCache /\ o.heap = heap
  BY <1>1, <1>3, <1>5 DEF HeadOK, Truthful
<1>6. CASE headCache[p] = NULL /\ remote[p] = NULL /\ o.entry = NULL /\ o.cache = [headCache EXCEPT ![p] = ABSENT]
  BY <1>1, <1>2, <1>3, <1>6 DEF HeadCaches, Truthful
<1>7. CASE /\ headCache[p] = NULL /\ remote[p] # NULL
           /\ o.entry = NewEntry /\ o.cache = [headCache EXCEPT ![p] = NewEntry]
           /\ o.heap = With(heap, NewEntry, [stamp |-> remote[p].stamp, sized |-> remote[p].data # 0])
  <2> DEFINE v == [stamp |-> remote[p].stamp, sized |-> remote[p].data # 0]
  <2>1. o.cache[p] = NewEntry BY <1>2, <1>7 DEF HeadCaches
  <2>2. v.stamp = remote[p].stamp /\ v.sized = (remote[p].data # 0) OBVIOUS
  <2>3. o.heap = With(heap, NewEntry, v) BY <1>7
  <2> HIDE DEF v
  <2>4. o.heap[NewEntry] = v
    <3>1. o.heap = [y \in LiveEntries \cup {NewEntry} |-> IF y = NewEntry THEN v ELSE heap[y]]
      BY <1>2, <2>3 DEF With
    <3> QED BY <3>1
  <2>5. o.heap[o.entry].stamp = remote[p].stamp /\ o.heap[o.entry].sized = (remote[p].data # 0)
    BY <1>7, <2>2, <2>4
  <2> QED BY <1>1, <1>3, <1>7, <2>1, <2>5 DEF RemoteOK, Truthful
<1>8. \/ headCache[p] = ABSENT /\ o.entry = NULL /\ o.cache = headCache /\ o.heap = heap
      \/ headCache[p] \in Entries /\ o.entry = headCache[p] /\ o.cache = headCache /\ o.heap = heap
      \/ headCache[p] = NULL /\ remote[p] = NULL /\ o.entry = NULL /\ o.cache = [headCache EXCEPT ![p] = ABSENT]
      \/ /\ headCache[p] = NULL /\ remote[p] # NULL
         /\ o.entry = NewEntry /\ o.cache = [headCache EXCEPT ![p] = NewEntry]
         /\ o.heap = With(heap, NewEntry, [stamp |-> remote[p].stamp, sized |-> remote[p].data # 0])
  <2>1. \/ headCache[p] = ABSENT /\ o.entry = NULL /\ o.cache = headCache /\ o.heap = heap
        \/ headCache[p] \in Entries /\ o.entry = headCache[p] /\ o.cache = headCache /\ o.heap = heap
        \/ /\ headCache[p] = NULL /\ (remote[p] = NULL \/ May("head"))
           /\ o.entry = NULL /\ o.cache = [headCache EXCEPT ![p] = ABSENT] /\ o.heap = heap
        \/ /\ headCache[p] = NULL /\ remote[p] # NULL
           /\ o.entry = NewEntry /\ o.cache = [headCache EXCEPT ![p] = NewEntry]
           /\ o.heap = With(heap, NewEntry, [stamp |-> remote[p].stamp, sized |-> remote[p].data # 0])
    <3>1. headCache \in HeadCaches BY <1>2
    <3>2. HeadGives(o, p, remote, headCache, heap) BY <3>1, HeadObjectGives
    <3> QED BY <3>2 DEF HeadGives
  <2> QED BY <1>2, <2>1
<1> QED BY <1>1, <1>4, <1>5, <1>6, <1>7, <1>8


LEMMA HeapIs == ASSUME NEW h, Heap(h) PROVE \A e \in LiveEntries' : heap'[e] = h[e]
BY DEF Heap, Restrict

LEMMA DiskIs == ASSUME NEW d, Disk(d) PROVE \A f \in LiveFiles' : file'[f] = d[f]
BY DEF Disk, Restrict

(* Only what is cached of p's object changes.                              *)
LEMMA HeadOnly ==
  ASSUME TypeOK, TypeOK', Apart, NEW h \in Contents, \A r \in Paths : PathOK(h, r), NEW p \in Paths,
         UNCHANGED <<remote, cacheAt, file, mOpen, ctx, deleting, truth, clock>>,
         \A r \in Paths \ {p} : headCache'[r] = headCache[r],
         headCache'[p] \in {NULL, ABSENT, headCache[p], NewEntry},
         \A e \in LiveEntries \cap LiveEntries' : heap'[e] = heap[e],
         HeadOK(h, p)'
  PROVE  Fit'
<1>1. clock \in Nat /\ Typed(p) /\ Typed(p)' BY Types, TypesThen
<1>2. OnlyAt({p}) BY <1>1 DEF OnlyAt
<1>3. Apart'
  <2>1. mOpen'[p].entry # ABSENT BY <1>1, EntryLeft, NullIsNoObject DEF Typed
  <2> QED BY <2>1, ApartStays
<1>4. AsItWas(p)
  <2>1. \A d \in Contexts : ctx'[d].path = ctx[d].path /\ (InUse(d)' <=> InUse(d)) BY DEF InUse
  <2>2. Users(p)' = Users(p) /\ \A d \in Users(p) : ctx'[d] = ctx[d] BY <2>1, UsersStay
  <2>3. mOpen[p].entry # NULL => heap'[mOpen[p].entry] = heap[mOpen[p].entry] BY <1>1 DEF Typed
  <2> QED BY <1>1, <2>2, <2>3 DEF AsItWas
<1>5. Agree(h, h) BY DEF Agree
<1>6. PathOK(h, p)' BY <1>4, <1>5, UseStays
<1> QED BY <1>2, <1>3, <1>5, <1>6, StepFits

LEMMA LookUpFits ==
  ASSUME TypeOK, TypeOK', Calm, Apart, NEW h \in Contents, \A r \in Paths : PathOK(h, r), NEW p \in Paths,
         mOpen[p].entry = NULL, NEW o \in HeadObject(p, remote, headCache, heap), headCache' = o.cache, Heap(o.heap),
         UNCHANGED <<remote, cacheAt, file, mOpen, ctx, deleting, truth, clock>>
  PROVE  Fit'
<1>1. Looked(o, p, headCache) /\ Truthful(o, h, p) BY CalmLookup DEF PathOK
<1>2. \A e \in LiveEntries' : heap'[e] = o.heap[e] BY HeapIs
<1>3. \A e \in LiveEntries \cap LiveEntries' : heap'[e] = heap[e] BY <1>1, <1>2 DEF Looked
<1>4. HeadOK(h, p)'
  <2>1. Typed(p)' BY TypesThen
  <2>2. headCache'[p] \in Entries => o.entry = headCache'[p] /\ remote[p] # NULL /\ heap'[headCache'[p]] = o.heap[o.entry]
    BY <1>1, <1>2, <2>1, NullIsNoObject DEF Truthful, Typed
  <2>3. headCache'[p] = ABSENT => remote[p] = NULL
    BY <1>1, NullIsNoObject, EntryLeft DEF Truthful, Looked
  <2> QED BY <1>1, <2>2, <2>3, NullIsNoObject DEF HeadOK, Truthful
<1>5. headCache'[p] \in {NULL, ABSENT, headCache[p], NewEntry} BY <1>1 DEF Truthful
<1>6. \A r \in Paths \ {p} : headCache'[r] = headCache[r] BY <1>1 DEF Looked
<1> QED BY <1>3, <1>4, <1>5, <1>6, HeadOnly

LEMMA ExpireFits ==
  ASSUME TypeOK, TypeOK', Apart, NEW h \in Contents, \A r \in Paths : PathOK(h, r), NEW p \in Paths, Expire(p)
  PROVE  Fit'
<1>1. headCache \in HeadCaches BY TypesApart
<1>2. headCache'[p] = NULL /\ \A r \in Paths \ {p} : headCache'[r] = headCache[r] BY <1>1 DEF Expire, HeadCaches
<1>3. HeadOK(h, p)' BY <1>2, NullIsNoObject DEF HeadOK
<1>4. \A e \in LiveEntries' : heap'[e] = heap[e] BY HeapIs DEF Expire
<1> QED BY <1>2, <1>3, <1>4, HeadOnly DEF Expire


(* A time stamp that was not given out yet can stand for any content.      *)
LEMMA NewContent ==
  ASSUME TypeOK, NEW h \in Contents, NEW v \in Nat
  PROVE  \E g \in Contents : Agree(g, h) /\ g[clock + 1] = v
<1>1. clock \in Nat BY Types
<1> DEFINE g == [h EXCEPT ![clock + 1] = v]
<1>2. g \in Contents /\ g[clock + 1] = v /\ \A t \in Nat : t <= clock => g[t] = h[t]
  BY <1>1 DEF Contents
<1> QED BY <1>2 DEF Agree

LEMMA ElsewhereFits ==
  ASSUME TypeOK, TypeOK', Apart, NEW h \in Contents, \A r \in Paths : PathOK(h, r), NEW p \in Paths,
         StoredElsewhere(p)
  PROVE  Fit'
<1>1. clock \in Nat /\ clock' = clock + 1 /\ clock' \in Nat /\ Typed(p) /\ Typed(p)' BY Types, TypesThen DEF StoredElsewhere
<1>2. /\ headCache \in HeadCaches /\ remote \in Buckets /\ truth \in [Paths -> Nat \cup {NULL}]
  BY TypesApart
<1>3. /\ headCache'[p] = NULL /\ \A r \in Paths \ {p} : headCache'[r] = headCache[r]
      /\ remote'[p] = [data |-> clock', stamp |-> clock'] /\ \A r \in Paths \ {p} : remote'[r] = remote[r]
      /\ truth'[p] = clock' /\ \A r \in Paths \ {p} : truth'[r] = truth[r]
      /\ UNCHANGED <<cacheAt, file, mOpen, ctx, deleting>>
  BY <1>2 DEF StoredElsewhere, HeadCaches, Buckets
<1>4. Users(p) = {} /\ Users(p)' = {} BY <1>3 DEF StoredElsewhere, Users, InUse
<1>5. PathOK(h, p) /\ Idle(p)
  BY <1>4 DEF PathOK, Live, Condemned, Dead
<1>6. PICK g \in Contents : Agree(g, h) /\ g[clock + 1] = clock + 1 BY <1>1, NewContent
<1>7. OnlyAt({p})
  <2>1. \A e \in LiveEntries' : heap'[e] = heap[e] BY HeapIs DEF StoredElsewhere
  <2> QED BY <1>1, <1>3, <2>1 DEF OnlyAt
<1>8. Apart'
  <2>1. mOpen'[p].entry # ABSENT BY <1>1, <1>3, EntryLeft, NullIsNoObject DEF Typed
  <2> QED BY <1>3, <2>1, ApartStays
<1>9. remote'[p] # NULL /\ remote'[p].data = clock' /\ remote'[p].stamp = clock'
  <2>1. remote'[p] \in Object BY <1>1, <1>3 DEF Object
  <2> QED BY <1>3, <2>1, NullIsNoObject
<1>10. RemoteOK(g, p)' BY <1>1, <1>6, <1>9 DEF RemoteOK
<1>11. FileOK(g, p)' BY <1>1, <1>3, <1>4, <1>5, <1>6 DEF PathOK, FileOK, Agree, Typed
<1>12. EntryOK(p)' BY <1>1, <1>3, <1>5 DEF EntryOK, Idle, Typed
<1>13. HeadOK(g, p)' BY <1>3, NullIsNoObject DEF HeadOK
<1>14. UsersOK(p)' BY <1>4 DEF UsersOK
<1>15. Idle(p)'
  <2>1. Matches(p)' BY <1>3, <1>9 DEF Matches
  <2>2. truth'[p] # NULL BY <1>1, <1>3, NullIsNoObject
  <2> QED BY <1>3, <1>4, <1>5, <2>1, <2>2 DEF Idle
<1>16. PathOK(g, p)' BY <1>10, <1>11, <1>12, <1>13, <1>14, <1>15 DEF PathOK
<1> QED BY <1>6, <1>7, <1>8, <1>16, StepFits

(* A handle of a path that nobody uses: e is the entry, f the cache file,  *)
(* and v what the file is to be.                                           *)
LEMMA EnteredFits ==
  ASSUME TypeOK, TypeOK', Apart, NEW h \in Contents, \A r \in Paths : PathOK(h, r), NEW p \in Paths, Idle(p),
         NEW g \in Contents, Agree(g, h),
         NEW c \in Contexts, ~InUse(c), NEW e \in Entries, NEW f \in Files, NEW created \in BOOLEAN, NEW doc \in BOOLEAN,
         NewContext(c, p, e, f, created, doc),
         f = CacheFile(p), cacheAt'[p] = f, \A r \in Paths \ {p} : cacheAt'[r] = cacheAt[r],
         e \in {headCache[p], NewEntry},
         mOpen' = Register(mOpen, p, e),
         headCache'[p] \in {NULL, ABSENT, headCache[p], NewEntry},
         \A r \in Paths \ {p} : headCache'[r] = headCache[r],
         UNCHANGED <<remote, deleting>>, \A r \in Paths \ {p} : truth'[r] = truth[r], clock <= clock',
         NEW v, NEW hh, Disk(With(file, f, v)), Heap(hh), \A x \in LiveEntries : hh[x] = heap[x],
         v.pending = FALSE, v.stamp = hh[e].stamp, hh[e].stamp <= clock', v.data \in {0, g[v.stamp]},
         hh[e].sized = (truth'[p] # 0), g[hh[e].stamp] = truth'[p], truth'[p] # NULL,
         v.data = 0 /\ truth'[p] # 0 => Matches(p)', Matches(p)' \/ created,
         HeadOK(g, p)'
  PROVE  Fit'
<1>1. clock \in Nat /\ clock' \in Nat /\ Typed(p) /\ Typed(p)' BY Types, TypesThen
<1>2. mOpen \in Tables /\ DOMAIN file = LiveFiles BY TypesApart
<1>3. /\ ctx'[c] = [state |-> "open", path |-> p, name |-> p, entry |-> e, handle |-> f,
                    modify |-> created, deleteOnClose |-> doc]
      /\ \A d \in Contexts \ {c} : ctx'[d] = ctx[d]
  BY NewContextFits
<1>4. /\ ctx'[c].state = "open" /\ ctx'[c].path = p /\ ctx'[c].name = p /\ ctx'[c].entry = e
      /\ ctx'[c].handle = f /\ ctx'[c].modify = created /\ ctx'[c].deleteOnClose = doc
  BY <1>3
<1>5. Users(p) = {} /\ Users(p)' = {c}
  <2>1. Users(p)' = Users(p) \cup {c} BY <1>3, <1>4, UsersOpened
  <2> QED BY <2>1 DEF Idle
<1>6. mOpen'[p] = [entry |-> e, ref |-> 1] /\ \A r \in Paths \ {p} : mOpen'[r] = mOpen[r]
  BY <1>2 DEF Register, Tables
<1>7. f # NULL /\ f \in {cacheAt[p], NewFile} BY CacheFileFits DEF CacheFile
<1>8. e \notin {NULL, ABSENT} BY NullIsNoObject
<1>9. Apart' BY <1>6, <1>7, <1>8, ApartStays
<1>10. \A x \in LiveEntries' : heap'[x] = hh[x] BY HeapIs
<1>11. \A x \in LiveFiles' : file'[x] = With(file, f, v)[x] BY DiskIs
<1>12. With(file, f, v) = [y \in LiveFiles \cup {f} |-> IF y = f THEN v ELSE file[y]]
  BY <1>2 DEF With
<1>13. OnlyAt({p})
  <2>1. \A x \in LiveFiles \cap LiveFiles' : x # cacheAt[p] => file'[x] = file[x]
    <3> SUFFICES ASSUME NEW x \in LiveFiles \cap LiveFiles', x # cacheAt[p] PROVE file'[x] = file[x] OBVIOUS
    <3>1. x # f BY <1>7, FileLeft
    <3> QED BY <1>11, <1>12, <3>1
  <2>2. \A x \in LiveEntries \cap LiveEntries' : heap'[x] = heap[x] BY <1>10
  <2>3. \A d \in Contexts : ctx'[d] = ctx[d] \/ (ctx[d].path \in {p, NULL} /\ ctx'[d].path \in {p, NULL})
    <3>1. UserTyped(c) BY Types
    <3> QED BY <1>3, <1>4, <3>1 DEF UserTyped
  <2> QED BY <1>6, <2>1, <2>2, <2>3 DEF OnlyAt
<1>14. file'[cacheAt'[p]] = v
  <2>1. f \in LiveFiles' BY <1>1, <1>7 DEF Typed
  <2> QED BY <1>11, <1>12, <2>1
<1>15. heap'[mOpen'[p].entry] = hh[e]
  <2>1. e \in LiveEntries' BY <1>1, <1>6, <1>8 DEF Typed
  <2> QED BY <1>6, <1>10, <2>1
<1>16. RemoteOK(g, p)' BY <1>1 DEF PathOK, RemoteOK, Agree, Typed
<1>17. FileOK(g, p)' BY <1>14, <1>15 DEF FileOK
<1>18. EntryOK(p)' BY <1>15 DEF EntryOK
<1>19. UsersOK(p)' BY <1>4, <1>5 DEF UsersOK
<1>20. Counted(p)'
  <2>1. Cardinality(Users(p)') = 1 BY <1>5, FS_Singleton
  <2> QED BY <1>4, <1>5, <1>6, <1>7, <2>1 DEF Counted, IsOpen
<1>21. Live(g, p)'
  <2>1. Users(p)' # {} /\ p \notin deleting' BY <1>5 DEF Idle
  <2>2. Matches(p)' \/ \E d \in Users(p)' : ctx'[d].modify BY <1>4, <1>5
  <2> QED BY <1>14, <1>15, <1>20, <2>1, <2>2 DEF Live
<1>22. PathOK(g, p)' BY <1>16, <1>17, <1>18, <1>19, <1>21 DEF PathOK
<1> QED BY <1>9, <1>13, <1>22, StepFits


(* A path that is used has a cache file and an entry.                      *)
LEMMA LiveHas ==
  ASSUME TypeOK, NEW p \in Paths, UsersOK(p), Counted(p), Users(p) # {}
  PROVE  /\ cacheAt[p] # NULL /\ mOpen[p].entry # NULL /\ mOpen[p] # Unregistered /\ mOpen[p].ref # 0
         /\ \A c \in Users(p) : ctx[c].handle = cacheAt[p] /\ ctx[c].entry = mOpen[p].entry
<1>1. PICK c \in Users(p) : TRUE OBVIOUS
<1>2. ctx[c].handle # NULL /\ ctx[c].handle = cacheAt[p] BY <1>1 DEF Counted, UsersOK
<1>3. mOpen[p].ref # 0 BY <1>1, UserCount, FS_EmptySet DEF Counted
<1>4. Typed(p) BY Types
<1> QED BY <1>2, <1>3, <1>4 DEF Typed, Counted, UsersOK

(* Another handle of a path that is open already: its entry is adopted.    *)
LEMMA SharedFits ==
  ASSUME TypeOK, TypeOK', Apart, NEW h \in Contents, \A r \in Paths : PathOK(h, r), NEW p \in Paths, Live(h, p),
         NEW c \in Contexts, ~InUse(c), NEW doc \in BOOLEAN,
         NewContext(c, p, mOpen[p].entry, cacheAt[p], FALSE, doc),
         \A d \in Users(p) : IsOpen(d) => ~doc /\ ~ctx[d].deleteOnClose,
         \A r \in Paths : cacheAt'[r] = cacheAt[r],
         mOpen' = Acquire(mOpen, p),
         UNCHANGED <<remote, headCache, deleting, truth, clock>>, Heap(heap),
         NEW fs, Disk(fs), \A x \in LiveFiles : fs[x] = file[x]
  PROVE  Fit'
<1>1. clock \in Nat /\ Typed(p) /\ Typed(p)' BY Types, TypesThen
<1>2. UsersOK(p) /\ Counted(p) /\ Users(p) # {} BY DEF PathOK, Live
<1>3. /\ cacheAt[p] # NULL /\ mOpen[p].entry # NULL /\ mOpen[p] # Unregistered
      /\ \A d \in Users(p) : ctx[d].handle = cacheAt[p] /\ ctx[d].entry = mOpen[p].entry
  BY <1>2, LiveHas
<1>4. mOpen \in Tables /\ mOpen[p].entry \in Entries /\ cacheAt[p] \in Files
  BY <1>1, <1>3, EntryLeft, FileLeft, TypesApart DEF Typed
<1>5. /\ ctx'[c] = [state |-> "open", path |-> p, name |-> p, entry |-> mOpen[p].entry, handle |-> cacheAt[p],
                    modify |-> FALSE, deleteOnClose |-> doc]
      /\ \A d \in Contexts \ {c} : ctx'[d] = ctx[d]
  <2>1. ContextsOK(ctx) BY TypesApart
  <2> QED BY <2>1 DEF NewContext, ContextsOK
<1>6. /\ ctx'[c].state = "open" /\ ctx'[c].path = p /\ ctx'[c].name = p /\ ctx'[c].entry = mOpen[p].entry
      /\ ctx'[c].handle = cacheAt[p] /\ ctx'[c].deleteOnClose = doc
  BY <1>5
<1>7. c \notin Users(p) /\ Users(p)' = Users(p) \cup {c} BY <1>5, <1>6, UsersOpened
<1>8. \A d \in Users(p) : ctx'[d] = ctx[d] BY <1>5, <1>7 DEF Users
<1>9. /\ mOpen'[p].entry = mOpen[p].entry /\ mOpen'[p].ref = mOpen[p].ref + 1
      /\ \A r \in Paths \ {p} : mOpen'[r] = mOpen[r]
  <2>1. mOpen'[p] = [mOpen[p] EXCEPT !.ref = mOpen[p].ref + 1] /\ \A r \in Paths \ {p} : mOpen'[r] = mOpen[r]
    BY <1>4 DEF Acquire, Tables
  <2>2. mOpen[p] \in [entry : Entries, ref : Nat \ {0}] BY <1>3, <1>4 DEF Tables, Registration
  <2> QED BY <2>1, <2>2
<1>10. \A x \in LiveEntries \cap LiveEntries' : heap'[x] = heap[x] BY HeapIs
<1>11. \A x \in LiveFiles \cap LiveFiles' : file'[x] = file[x] BY DiskIs
<1>12. /\ file'[cacheAt'[p]] = file[cacheAt[p]] /\ heap'[mOpen'[p].entry] = heap[mOpen[p].entry]
       /\ headCache[p] \in Entries => heap'[headCache[p]] = heap[headCache[p]]
  BY <1>1, <1>3, <1>9, <1>10, <1>11 DEF Typed
<1>13. Apart'
  <2>1. mOpen'[p].entry # ABSENT BY <1>4, <1>9, NullIsNoObject
  <2> QED BY <1>9, <2>1, ApartStays
<1>14. OnlyAt({p})
  <2>1. \A d \in Contexts : ctx'[d] = ctx[d] \/ (ctx[d].path \in {p, NULL} /\ ctx'[d].path \in {p, NULL})
    <3>1. UserTyped(c) BY Types
    <3> QED BY <1>5, <1>6, <3>1 DEF UserTyped
  <2> QED BY <1>1, <1>9, <1>10, <1>11, <2>1 DEF OnlyAt
<1>15. Agree(h, h) BY DEF Agree
<1>16. RemoteOK(h, p)' BY DEF PathOK, RemoteOK
<1>17. FileOK(h, p)' BY <1>12 DEF PathOK, FileOK, Live
<1>18. EntryOK(p)' BY <1>3, <1>9, <1>12 DEF PathOK, EntryOK
<1>19. HeadOK(h, p)' BY <1>9, <1>12 DEF PathOK, HeadOK
<1>20. UsersOK(p)' BY <1>2, <1>6, <1>7, <1>8 DEF UsersOK
<1>21. Counted(p)'
  <2>1. Cardinality(Users(p)') = Cardinality(Users(p)) + 1 BY <1>7, MoreUsers
  <2>2. mOpen'[p].ref = Cardinality(Users(p)') BY <1>2, <1>9, <2>1 DEF Counted
  <2>3. \A d \in Users(p)' : ctx'[d].handle # NULL /\ ctx'[d].entry = mOpen'[p].entry
    BY <1>3, <1>6, <1>7, <1>8, <1>9
  <2>4. ASSUME NEW d \in Users(p)', ctx'[d].deleteOnClose
        PROVE  IsOpen(d)' /\ \A k \in Users(p)' \ {d} : ~IsOpen(k)'
    <3>1. CASE d = c
      <4>1. \A k \in Users(p) : ~IsOpen(k) BY <1>6, <2>4, <3>1
      <4> QED BY <1>6, <1>7, <1>8, <3>1, <4>1 DEF IsOpen
    <3>2. CASE d # c
      <4>1. d \in Users(p) /\ ctx[d].deleteOnClose BY <1>7, <1>8, <2>4, <3>2
      <4>2. IsOpen(d) BY <1>2, <4>1 DEF Counted
      <4> QED BY <4>1, <4>2
    <3> QED BY <3>1, <3>2
  <2> QED BY <2>2, <2>3, <2>4 DEF Counted
<1>22. Live(h, p)'
  <2>1. Matches(p)' <=> Matches(p) BY DEF Matches
  <2>2. Matches(p)' \/ \E d \in Users(p)' : ctx'[d].modify BY <1>7, <1>8, <2>1 DEF Live
  <2> QED BY <1>7, <1>12, <1>21, <2>1, <2>2 DEF Live
<1>23. PathOK(h, p)' BY <1>16, <1>17, <1>18, <1>19, <1>20, <1>22 DEF PathOK
<1> QED BY <1>13, <1>14, <1>15, <1>23, StepFits


(* WinFsp lets nobody open what is deleted: it is idle or open for good.   *)
LEMMA Admitted ==
  ASSUME Calm, NEW h, NEW p \in Paths, PathOK(h, p), NEW doc \in BOOLEAN, Admits(p, doc)
  PROVE  /\ Idle(p) \/ Live(h, p)
         /\ \A d \in Users(p) : IsOpen(d) => ~doc /\ ~ctx[d].deleteOnClose
<1>1. p \notin deleting BY DEF Admits
<1>2. \A d \in Users(p) : ctx[d].handle # NULL /\ ~file[ctx[d].handle].pending
  BY DEF Admits, Calm, May, Users
<1>3. ~Dead(p) BY <1>2 DEF Dead
<1>4. \A d \in Users(p) : ctx[d].name = p BY DEF PathOK, UsersOK
<1>5. \A d \in Users(p) : IsOpen(d) => ~doc /\ ~ctx[d].deleteOnClose BY <1>4 DEF Admits, Calm, May, Users
<1> QED BY <1>1, <1>3, <1>5 DEF PathOK, Condemned

LEMMA OpenFits ==
  ASSUME TypeOK, TypeOK', Calm, Apart, NEW h \in Contents, \A r \in Paths : PathOK(h, r),
         NEW c \in Contexts, NEW p \in Paths, NEW doc \in BOOLEAN, Open(c, p, doc)
  PROVE  Fit'
<1>1. clock \in Nat /\ Typed(p) /\ PathOK(h, p) /\ DOMAIN file = LiveFiles BY Types, TypesApart
<1>2. ~InUse(c) /\ Admits(p, doc) /\ UNCHANGED <<remote, deleting, truth, clock>> BY DEF Open
<1>3. Idle(p) \/ Live(h, p) BY <1>1, <1>2, Admitted
<1>4. \A d \in Users(p) : IsOpen(d) => ~doc /\ ~ctx[d].deleteOnClose BY <1>1, <1>2, Admitted
<1>5. CASE mOpen[p] = Unregistered
  <2>1. Idle(p)
    <3>1. ~Live(h, p) BY <1>1, <1>5, LiveHas DEF Live, PathOK
    <3> QED BY <1>3, <3>1
  <2>2. PICK o \in HeadObject(p, remote, headCache, heap) :
          /\ headCache' = o.cache
          /\ IF o.entry = NULL \/ Blocked(p)
             THEN UNCHANGED <<cacheAt, file, mOpen, ctx>>
             ELSE LET f == CacheFile(p) IN
                  /\ cacheAt' = [cacheAt EXCEPT ![p] = f]
                  /\ NewContext(c, p, o.entry, f, FALSE, doc)
                  /\ mOpen' = Register(mOpen, p, o.entry)
                  /\ Disk(With(file, f, SyncAttributes(f, o.heap[o.entry])))
          /\ Heap(o.heap)
    BY <1>5 DEF Open
  <2>3. mOpen[p].entry = NULL BY <1>1, <1>5 DEF Typed
  <2>4. Looked(o, p, headCache) /\ Truthful(o, h, p) BY <1>1, <2>3, CalmLookup DEF PathOK
  <2>5. CASE o.entry = NULL \/ Blocked(p) BY <1>2, <2>2, <2>3, <2>5, LookUpFits
  <2>6. CASE o.entry # NULL /\ ~Blocked(p)
    <3> DEFINE f == CacheFile(p)
               e == o.entry
               v == SyncAttributes(f, o.heap[o.entry])
    <3>1. /\ cacheAt' = [cacheAt EXCEPT ![p] = f] /\ NewContext(c, p, e, f, FALSE, doc)
          /\ mOpen' = Register(mOpen, p, e) /\ Disk(With(file, f, v)) /\ Heap(o.heap) /\ headCache' = o.cache
      BY <2>2, <2>6
    <3>2. /\ remote[p] # NULL /\ o.cache[p] = e /\ e \in {headCache[p], NewEntry}
          /\ o.heap[e].stamp <= clock
          /\ o.heap[e].sized = (remote[p].data # 0)
          /\ h[o.heap[e].stamp] = remote[p].data
      BY <2>4, <2>6 DEF Truthful
    <3>3. e \in Entries /\ e # NULL
      <4>1. e \in LiveEntries \cup {NewEntry} BY <2>4, <2>6 DEF Looked
      <4> QED BY <4>1, <2>6, EntryLeft
    <3>4. f \in Files /\ ((f = cacheAt[p] /\ cacheAt[p] # NULL) \/ f \notin LiveFiles)
      BY CacheFileFits, FileLeft DEF CacheFile
    <3>5. Matches(p) /\ truth[p] # NULL /\ truth[p] = remote[p].data BY <2>1, <3>2 DEF Idle, Matches
    <3>6. v.pending = FALSE /\ v.stamp = o.heap[e].stamp /\ v.data \in {0, h[v.stamp]}
      <4>1. CASE f \in DOMAIN file /\ file[f].stamp = o.heap[e].stamp
        <5>1. v = file[f] BY <4>1 DEF SyncAttributes
        <5>2. f = cacheAt[p] /\ cacheAt[p] # NULL BY <1>1, <3>4, <4>1
        <5>3. ~file[f].pending BY <1>1, <2>1, <5>2 DEF PathOK, FileOK, Idle
        <5>4. file[f].pending = FALSE BY <1>1, <5>2, <5>3 DEF Typed
        <5> QED BY <1>1, <4>1, <5>1, <5>2, <5>4 DEF PathOK, FileOK
      <4>2. CASE ~(f \in DOMAIN file /\ file[f].stamp = o.heap[e].stamp)
        <5>1. v = [data |-> 0, stamp |-> o.heap[e].stamp, pending |-> FALSE] BY <4>2 DEF SyncAttributes
        <5> QED BY <5>1
      <4> QED BY <4>1, <4>2
    <3> HIDE DEF f, e, v
    <3>7. cacheAt'[p] = f /\ \A r \in Paths \ {p} : cacheAt'[r] = cacheAt[r]
      <4>1. cacheAt \in [Paths -> Files \cup {NULL}] BY TypesApart
      <4> QED BY <3>1, <4>1
    <3>8. /\ headCache'[p] \in {NULL, ABSENT, headCache[p], NewEntry}
          /\ \A r \in Paths \ {p} : headCache'[r] = headCache[r]
          /\ \A x \in LiveEntries : o.heap[x] = heap[x]
      BY <2>4, <3>1, <3>2 DEF Looked
    <3>9. HeadOK(h, p)'
      <4>1. headCache'[p] = e /\ mOpen'[p].entry = e
        <5>1. mOpen \in Tables BY TypesApart
        <5>2. mOpen'[p] = [entry |-> e, ref |-> 1] BY <3>1, <5>1 DEF Register, Tables
        <5> QED BY <3>1, <3>2, <5>2
      <4>2. heap'[e] = o.heap[e]
        <5>1. Typed(p)' BY TypesThen
        <5>2. e \in LiveEntries' BY <3>3, <4>1, <5>1 DEF Typed
        <5> QED BY <3>1, <5>2, HeapIs
      <4> QED BY <1>2, <3>2, <3>3, <4>1, <4>2, NullIsNoObject DEF HeadOK
    <3>10. Agree(h, h) BY DEF Agree
    <3>11. Matches(p)' /\ truth'[p] = truth[p] /\ \A r \in Paths \ {p} : truth'[r] = truth[r]
      BY <1>2, <3>5 DEF Matches
    <3>12. clock <= clock' /\ o.heap[e].stamp <= clock' BY <1>1, <1>2, <3>2
    <3>13. f = CacheFile(p) BY DEF f
    <3>14. o.heap[e].sized = (truth'[p] # 0) /\ h[o.heap[e].stamp] = truth'[p] /\ truth'[p] # NULL
      BY <3>2, <3>5, <3>11
    <3>15. v.data = 0 /\ truth'[p] # 0 => Matches(p)' BY <3>11
    <3>16. UNCHANGED <<remote, deleting>> BY <1>2
    <3> DEFINE hh == o.heap
               made == FALSE
    <3>17. /\ NewContext(c, p, e, f, made, doc) /\ mOpen' = Register(mOpen, p, e) /\ Disk(With(file, f, v)) /\ Heap(hh)
           /\ e \in Entries /\ e \in {headCache[p], NewEntry} /\ made \in BOOLEAN /\ f \in Files
           /\ clock <= clock' /\ hh[e].stamp <= clock' /\ v.stamp = hh[e].stamp /\ v.pending = FALSE
           /\ hh[e].sized = (truth'[p] # 0) /\ h[hh[e].stamp] = truth'[p] /\ truth'[p] # NULL
           /\ v.data \in {0, h[v.stamp]}
           /\ Matches(p)' \/ made
           /\ \A x \in LiveEntries : hh[x] = heap[x]
      BY <3>1, <3>2, <3>3, <3>4, <3>6, <3>8, <3>11, <3>12, <3>14
    <3> HIDE DEF hh, made
    <3> QED BY <1>2, <2>1, <3>7, <3>8, <3>9, <3>10, <3>11, <3>13, <3>15, <3>16, <3>17, EnteredFits
  <2> QED BY <2>5, <2>6
<1>6. CASE mOpen[p] # Unregistered
  <2>1. Live(h, p) BY <1>3, <1>6 DEF Idle
  <2>2. cacheAt[p] # NULL /\ mOpen[p].entry # NULL /\ CacheFile(p) = cacheAt[p] /\ ~Blocked(p)
    BY <1>1, <2>1, LiveHas DEF Live, PathOK, CacheFile, Blocked
  <2> DEFINE fs == With(file, cacheAt[p], SyncAttributes(cacheAt[p], heap[mOpen[p].entry]))
  <2>3. /\ headCache' = headCache
        /\ cacheAt' = [cacheAt EXCEPT ![p] = cacheAt[p]]
        /\ NewContext(c, p, mOpen[p].entry, cacheAt[p], FALSE, doc)
        /\ mOpen' = Acquire(mOpen, p)
        /\ Disk(fs) /\ Heap(heap)
    <3>1. PICK o \in {[entry |-> mOpen[p].entry, cache |-> headCache, heap |-> heap]} :
            /\ headCache' = o.cache
            /\ IF o.entry = NULL \/ Blocked(p)
               THEN UNCHANGED <<cacheAt, file, mOpen, ctx>>
               ELSE LET f == CacheFile(p) IN
                    /\ cacheAt' = [cacheAt EXCEPT ![p] = f]
                    /\ NewContext(c, p, o.entry, f, FALSE, doc)
                    /\ mOpen' = Acquire(mOpen, p)
                    /\ Disk(With(file, f, SyncAttributes(f, o.heap[o.entry])))
            /\ Heap(o.heap)
      BY <1>6 DEF Open
    <3>2. o.entry = mOpen[p].entry /\ o.cache = headCache /\ o.heap = heap OBVIOUS
    <3> QED BY <2>2, <3>1, <3>2
  <2>4. \A x \in LiveFiles : fs[x] = file[x]
    <3>1. SyncAttributes(cacheAt[p], heap[mOpen[p].entry]) = file[cacheAt[p]]
      BY <1>1, <2>1, <2>2 DEF SyncAttributes, Live, Typed
    <3> QED BY <1>1, <3>1 DEF With
  <2>5. \A r \in Paths : cacheAt'[r] = cacheAt[r]
    <3>1. cacheAt \in [Paths -> Files \cup {NULL}] BY TypesApart
    <3> QED BY <2>3, <3>1
  <2> HIDE DEF fs
  <2> QED BY <1>2, <1>4, <2>1, <2>3, <2>4, <2>5, SharedFits
<1> QED BY <1>5, <1>6


(* Create and Rename that find the name taken.                             *)
LEMMA RefusedFits ==
  ASSUME TypeOK, TypeOK', Calm, Apart, NEW h \in Contents, \A r \in Paths : PathOK(h, r), NEW p \in Paths,
         NEW o \in CanCreateObject(p), headCache' = o.cache, Heap(o.heap),
         UNCHANGED <<remote, cacheAt, file, mOpen, ctx, deleting, truth, clock>>
  PROVE  Fit'
<1>1. Typed(p) /\ Typed(p)' BY Types, TypesThen
<1>2. CASE mOpen[p] = Unregistered
  <2>1. o \in HeadObject(p, remote, headCache, heap) BY <1>2 DEF CanCreateObject
  <2>2. mOpen[p].entry = NULL BY <1>1, <1>2 DEF Typed
  <2> QED BY <2>1, <2>2, LookUpFits
<1>3. CASE mOpen[p] # Unregistered
  <2>1. headCache' = headCache /\ Heap(heap) BY <1>3 DEF CanCreateObject
  <2>2. \A e \in LiveEntries' : heap'[e] = heap[e] BY <2>1, HeapIs
  <2>3. HeadOK(h, p)'
    <3>1. headCache'[p] \in Entries => heap'[headCache'[p]] = heap[headCache[p]] BY <1>1, <2>1, <2>2 DEF Typed
    <3> QED BY <2>1, <3>1 DEF PathOK, HeadOK
  <2> QED BY <2>1, <2>2, <2>3, HeadOnly
<1> QED BY <1>2, <1>3

(* Create makes a file only of a name that nobody uses.                    *)
LEMMA CreateIdle ==
  ASSUME TypeOK, Calm, NEW h \in Contents, NEW p \in Paths, PathOK(h, p), NEW doc \in BOOLEAN, Admits(p, doc),
         NEW o \in CanCreateObject(p), o.entry = NULL
  PROVE  /\ mOpen[p] = Unregistered /\ Idle(p) /\ remote[p] = NULL /\ o.cache[p] = ABSENT
         /\ Looked(o, p, headCache)
<1>1. Typed(p) BY Types
<1>2. mOpen[p] = Unregistered BY <1>1 DEF CanCreateObject, Typed
<1>3. o \in HeadObject(p, remote, headCache, heap) /\ mOpen[p].entry = NULL
  BY <1>1, <1>2 DEF CanCreateObject, Typed
<1>4. Looked(o, p, headCache) /\ Truthful(o, h, p) BY <1>3, CalmLookup DEF PathOK
<1>5. ~Live(h, p) BY <1>2, LiveHas DEF Live, PathOK
<1> QED BY <1>2, <1>4, <1>5, Admitted DEF Truthful

LEMMA CreateFits ==
  ASSUME TypeOK, TypeOK', Calm, Apart, NEW h \in Contents, \A r \in Paths : PathOK(h, r),
         NEW c \in Contexts, NEW p \in Paths, NEW doc \in BOOLEAN, Create(c, p, doc)
  PROVE  Fit'
<1>1. clock \in Nat /\ Typed(p) /\ PathOK(h, p) /\ DOMAIN file = LiveFiles BY Types, TypesApart
<1>2. ~InUse(c) /\ Admits(p, doc) /\ UNCHANGED <<remote, deleting>> BY DEF Create
<1>3. PICK o \in CanCreateObject(p) :
        /\ headCache' = o.cache
        /\ IF o.entry # NULL \/ Blocked(p)
           THEN /\ UNCHANGED <<cacheAt, file, mOpen, ctx, truth, clock>>
                /\ Heap(o.heap)
           ELSE LET f == CacheFile(p) IN
                /\ clock' = clock + 1
                /\ cacheAt' = [cacheAt EXCEPT ![p] = f]
                /\ NewContext(c, p, NewEntry, f, TRUE, doc)
                /\ mOpen' = Register(mOpen, p, NewEntry)
                /\ truth' = [truth EXCEPT ![p] = 0]
                /\ Disk(With(file, f, [data |-> 0, stamp |-> clock', pending |-> FALSE]))
                /\ Heap(With(o.heap, NewEntry, [stamp |-> clock', sized |-> FALSE]))
  BY DEF Create
<1>4. CASE o.entry # NULL \/ Blocked(p) BY <1>2, <1>3, <1>4, RefusedFits
<1>5. CASE o.entry = NULL /\ ~Blocked(p)
  <2> DEFINE f == CacheFile(p)
             v == [data |-> 0, stamp |-> clock', pending |-> FALSE]
             n == [stamp |-> clock', sized |-> FALSE]
             hh == With(o.heap, NewEntry, n)
  <2>1. /\ clock' = clock + 1 /\ cacheAt' = [cacheAt EXCEPT ![p] = f]
        /\ NewContext(c, p, NewEntry, f, TRUE, doc) /\ mOpen' = Register(mOpen, p, NewEntry)
        /\ truth' = [truth EXCEPT ![p] = 0] /\ Disk(With(file, f, v)) /\ Heap(hh) /\ headCache' = o.cache
    BY <1>3, <1>5
  <2>2. Idle(p) /\ remote[p] = NULL /\ o.cache[p] = ABSENT /\ Looked(o, p, headCache)
    BY <1>1, <1>2, <1>5, CreateIdle
  <2>3. v.data = 0 /\ v.stamp = clock' /\ v.pending = FALSE /\ n.stamp = clock' /\ n.sized = FALSE OBVIOUS
  <2>4. f \in Files /\ f = CacheFile(p) BY CacheFileFits
  <2> HIDE DEF f, v, n
  <2>5. /\ hh[NewEntry] = n
        /\ \A x \in LiveEntries : hh[x] = heap[x]
    BY <2>2, EntryLeft DEF With, Looked, HeapOK
  <2> HIDE DEF hh
  <2>6. PICK g \in Contents : Agree(g, h) /\ g[clock + 1] = 0 BY NewContent
  <2>7. cacheAt'[p] = f /\ \A r \in Paths \ {p} : cacheAt'[r] = cacheAt[r]
    <3>1. cacheAt \in [Paths -> Files \cup {NULL}] BY TypesApart
    <3> QED BY <2>1, <3>1
  <2>8. truth'[p] = 0 /\ \A r \in Paths \ {p} : truth'[r] = truth[r]
    <3>1. truth \in [Paths -> Nat \cup {NULL}] BY TypesApart
    <3> QED BY <2>1, <3>1
  <2>9. headCache'[p] = ABSENT /\ \A r \in Paths \ {p} : headCache'[r] = headCache[r]
    BY <2>1, <2>2 DEF Looked
  <2>10. NewEntry \in Entries /\ NewEntry \in {headCache[p], NewEntry} BY EntryLeft
  <2>11. headCache'[p] \in {NULL, ABSENT, headCache[p], NewEntry} BY <2>9
  <2>12. HeadOK(g, p)' BY <1>2, <2>2, <2>9, NullIsNoObject DEF HeadOK
  <2>13. clock <= clock' /\ hh[NewEntry].stamp <= clock' /\ v.stamp = hh[NewEntry].stamp
    BY <1>1, <2>1, <2>3, <2>5
  <2>14. hh[NewEntry].sized = (truth'[p] # 0) /\ g[hh[NewEntry].stamp] = truth'[p] /\ truth'[p] # NULL
    <3>1. hh[NewEntry].sized = FALSE /\ hh[NewEntry].stamp = clock + 1 BY <2>1, <2>3, <2>5
    <3>2. 0 # NULL BY NullIsNoObject
    <3> QED BY <2>6, <2>8, <3>1, <3>2
  <2>15. v.data \in {0, g[v.stamp]} /\ (v.data = 0 /\ truth'[p] # 0 => Matches(p)') /\ (Matches(p)' \/ TRUE)
    BY <2>3, <2>8
  <2>16. UNCHANGED <<remote, deleting>> BY <1>2
  <2>17. ~InUse(c) /\ v.pending = FALSE BY <1>2, <2>3
  <2> DEFINE e == NewEntry
             made == TRUE
  <2>18. /\ NewContext(c, p, e, f, made, doc) /\ mOpen' = Register(mOpen, p, e) /\ Disk(With(file, f, v)) /\ Heap(hh)
         /\ e \in Entries /\ e \in {headCache[p], NewEntry} /\ made \in BOOLEAN
         /\ clock <= clock' /\ hh[e].stamp <= clock' /\ v.stamp = hh[e].stamp
         /\ hh[e].sized = (truth'[p] # 0) /\ g[hh[e].stamp] = truth'[p] /\ truth'[p] # NULL
         /\ Matches(p)' \/ made
    BY <2>1, <2>10, <2>13, <2>14
  <2> HIDE DEF e, made
  <2> QED BY <2>2, <2>4, <2>5, <2>6, <2>7, <2>8, <2>9, <2>11, <2>12, <2>15, <2>16, <2>17, <2>18, EnteredFits
<1> QED BY <1>4, <1>5

(* An open handle: its path is live or condemned.                          *)
LEMMA OpenHas ==
  ASSUME TypeOK, NEW h, NEW c \in Contexts, IsOpen(c), NEW p \in Paths, p = ctx[c].path, PathOK(h, p)
  PROVE  /\ c \in Users(p) /\ (Live(h, p) \/ Condemned(p)) /\ Counted(p) /\ UsersOK(p)
         /\ ctx[c].name = p /\ ctx[c].handle = cacheAt[p] /\ ctx[c].entry = mOpen[p].entry
         /\ cacheAt[p] # NULL /\ mOpen[p].entry # NULL /\ mOpen[p] # Unregistered /\ mOpen[p].ref # 0
         /\ cacheAt[p] \in LiveFiles /\ mOpen[p].entry \in LiveEntries
<1>1. c \in Users(p) BY Types DEF UserTyped
<1>2. Live(h, p) \/ Condemned(p) BY <1>1 DEF PathOK, Idle, Dead
<1>3. Counted(p) /\ UsersOK(p) /\ Users(p) # {} BY <1>1, <1>2 DEF Live, Condemned, PathOK
<1>4. /\ cacheAt[p] # NULL /\ mOpen[p].entry # NULL /\ mOpen[p] # Unregistered /\ mOpen[p].ref # 0
      /\ \A d \in Users(p) : ctx[d].handle = cacheAt[p] /\ ctx[d].entry = mOpen[p].entry
  BY <1>3, LiveHas
<1>5. ctx[c].name = p BY <1>1, <1>3 DEF UsersOK
<1>6. cacheAt[p] \in LiveFiles /\ mOpen[p].entry \in LiveEntries BY <1>4, Types DEF Typed
<1> QED BY <1>1, <1>2, <1>3, <1>4, <1>5, <1>6

(* A callback that works on the file of an open handle in place: what it   *)
(* has to leave of the cache file and of the entry.                        *)
WorksOn(g, h, p) ==
  LET f == file'[cacheAt[p]]
      e == heap'[mOpen[p].entry]
  IN /\ f.pending = file[cacheAt[p]].pending /\ f.stamp <= clock' /\ e.stamp <= clock'
     /\ f.data \in {0, g[f.stamp]}
     /\ Live(h, p) =>
          /\ truth'[p] # NULL /\ f.stamp = e.stamp /\ e.sized = (truth'[p] # 0) /\ g[e.stamp] = truth'[p]
          /\ f.data = 0 /\ truth'[p] # 0 => truth'[p] = truth[p]
          /\ truth'[p] = truth[p] \/ \E d \in Users(p) : ctx'[d].modify
     /\ Condemned(p) => truth'[p] = NULL

LEMMA InPlaceFits ==
  ASSUME TypeOK, TypeOK', Apart, NEW h \in Contents, \A r \in Paths : PathOK(h, r),
         NEW c \in Contexts, IsOpen(c), NEW p \in Paths, p = ctx[c].path,
         SameUse, UNCHANGED <<remote, cacheAt, mOpen, headCache, deleting>>,
         \A d \in Contexts \ {c} : ctx'[d] = ctx[d], ctx[c].modify => ctx'[c].modify, clock <= clock',
         \A x \in LiveEntries \ {mOpen[p].entry} : heap'[x] = heap[x],
         \A x \in LiveFiles \ {cacheAt[p]} : file'[x] = file[x],
         \A r \in Paths \ {p} : truth'[r] = truth[r],
         NEW g \in Contents, Agree(g, h), WorksOn(g, h, p),
         Live(h, p) /\ file'[cacheAt[p]].data = 0 /\ truth'[p] # 0 => Matches(p)
  PROVE  Fit'
<1>1. clock \in Nat /\ clock' \in Nat /\ Typed(p) /\ Typed(p)' /\ PathOK(h, p) BY Types, TypesThen
<1>2. /\ c \in Users(p) /\ (Live(h, p) \/ Condemned(p)) /\ Counted(p) /\ UsersOK(p)
      /\ cacheAt[p] # NULL /\ mOpen[p].entry # NULL
  BY <1>1, OpenHas
<1>3. Users(p)' = Users(p) BY UsersStay DEF SameUse, InUse
<1>4. \A d \in Contexts : IsOpen(d)' <=> IsOpen(d) BY DEF SameUse, IsOpen
<1>5. OnlyAt({p})
  <2>1. \A d \in Contexts : ctx'[d] = ctx[d] \/ (ctx[d].path = p /\ ctx'[d].path = p) BY DEF SameUse
  <2> QED BY <2>1 DEF OnlyAt
<1>6. Apart'
  <2>1. mOpen'[p].entry # ABSENT BY <1>1, EntryLeft, NullIsNoObject DEF Typed
  <2> QED BY <2>1, ApartStays
<1>7. RemoteOK(g, p)' BY <1>1 DEF PathOK, RemoteOK, Agree, Typed
<1>8. FileOK(g, p)'
  <2>1. file[cacheAt[p]].pending => \E d \in Users(p) : ctx[d].handle # NULL BY <1>1, <1>2 DEF PathOK, FileOK
  <2>2. file[cacheAt[p]].pending => \E d \in Users(p)' : ctx'[d].handle # NULL BY <1>3, <2>1 DEF SameUse, Users
  <2> QED BY <2>2 DEF FileOK, WorksOn
<1>9. EntryOK(p)' BY DEF EntryOK, WorksOn
<1>10. HeadOK(g, p)'
  <2>1. CASE headCache[p] \notin Entries BY <1>1, <2>1 DEF PathOK, HeadOK
  <2>2. CASE headCache[p] \in Entries /\ headCache[p] = mOpen[p].entry
    BY <1>1, <2>2, NullIsNoObject DEF PathOK, HeadOK, WorksOn
  <2>3. CASE headCache[p] \in Entries /\ headCache[p] # mOpen[p].entry
    <3>1. heap'[headCache[p]] = heap[headCache[p]] BY <1>1, <2>3 DEF Typed
    <3> QED BY <1>1, <2>3, <3>1, NullIsNoObject DEF PathOK, HeadOK, Agree, Typed
  <2> QED BY <2>1, <2>2, <2>3
<1>11. UsersOK(p)' BY <1>2, <1>3 DEF UsersOK, SameUse, Users
<1>12. Counted(p)'
  <2>1. mOpen'[p].ref = Cardinality(Users(p)') BY <1>2, <1>3 DEF Counted
  <2>2. \A d \in Users(p) : d \in Contexts BY DEF Users
  <2>3. ASSUME NEW d \in Users(p)
        PROVE  /\ ctx'[d].handle # NULL /\ ctx'[d].entry = mOpen'[p].entry
               /\ ctx'[d].deleteOnClose => IsOpen(d)' /\ \A k \in Users(p) \ {d} : ~IsOpen(k)'
    BY <1>2, <1>4, <2>2 DEF Counted, SameUse
  <2> QED BY <1>3, <2>1, <2>3 DEF Counted
<1>13. Live(h, p) => Live(g, p)'
  <2> SUFFICES ASSUME Live(h, p) PROVE Live(g, p)' OBVIOUS
  <2>1. ~file'[cacheAt'[p]].pending BY DEF Live, WorksOn
  <2>2. truth'[p] = truth[p] => (Matches(p)' <=> Matches(p)) BY DEF Matches
  <2>3. file'[cacheAt'[p]].data = 0 /\ truth'[p] # 0 => Matches(p)'
    BY <2>2 DEF WorksOn
  <2>4. Matches(p)' \/ \E d \in Users(p)' : ctx'[d].modify
    <3>1. CASE truth'[p] = truth[p]
      <4>1. Matches(p) \/ \E d \in Users(p) : ctx[d].modify BY DEF Live
      <4>2. \A d \in Users(p) : ctx[d].modify => ctx'[d].modify BY DEF Users
      <4> QED BY <1>3, <2>2, <3>1, <4>1, <4>2
    <3>2. CASE truth'[p] # truth[p] BY <1>3, <3>2 DEF WorksOn
    <3> QED BY <3>1, <3>2
  <2> QED BY <1>3, <1>12, <2>1, <2>3, <2>4 DEF Live, WorksOn
<1>14. Condemned(p) => Condemned(p)'
  BY <1>3, <1>4, <1>12 DEF Condemned, Gone, WorksOn, Users
<1>15. PathOK(g, p)' BY <1>2, <1>7, <1>8, <1>9, <1>10, <1>11, <1>13, <1>14 DEF PathOK
<1> QED BY <1>5, <1>6, <1>15, StepFits

(* What becomes of a file and of its entry, written out.                   *)
DataAndStamp(d, f, n, t) == [d EXCEPT ![f].data = n, ![f].stamp = t]
StampAlone(d, f, t)      == [d EXCEPT ![f].stamp = t]

LEMMA Edited ==
  ASSUME NEW d, DiskOK(d), NEW f \in DOMAIN d, NEW n \in Nat, NEW t \in Nat, NEW k,
         k = DataAndStamp(d, f, n, t) \/ (n = d[f].data /\ k = StampAlone(d, f, t))
  PROVE  /\ DiskOK(k) /\ DOMAIN k = DOMAIN d /\ \A x \in DOMAIN d \ {f} : k[x] = d[x]
         /\ k[f].data = n /\ k[f].stamp = t /\ k[f].pending = d[f].pending
<1>1. d[f] \in File BY DEF DiskOK
<1> DEFINE v == [d[f] EXCEPT !.data = n, !.stamp = t]
<1>2. v \in File /\ v.data = n /\ v.stamp = t /\ v.pending = d[f].pending BY <1>1 DEF File
<1>3. k = [d EXCEPT ![f] = v]
  <2>1. CASE k = DataAndStamp(d, f, n, t) BY <2>1 DEF DataAndStamp
  <2>2. CASE n = d[f].data /\ k = StampAlone(d, f, t)
    <3>1. k = [d EXCEPT ![f] = [d[f] EXCEPT !.stamp = t]] BY <2>2 DEF StampAlone
    <3>2. [d[f] EXCEPT !.stamp = t] = v BY <1>1, <2>2 DEF File
    <3> QED BY <3>1, <3>2
  <2> QED BY <2>1, <2>2
<1> HIDE DEF v
<1>4. DOMAIN k = DOMAIN d /\ k[f] = v /\ \A x \in DOMAIN d \ {f} : k[x] = d[x] BY <1>3 DEF DiskOK
<1>5. DiskOK(k) BY <1>2, <1>3 DEF DiskOK
<1> QED BY <1>2, <1>4, <1>5

LEMMA InfoIs ==
  ASSUME TypeOK, NEW c \in Contexts, IsOpen(c), NEW fs, DiskOK(fs), DOMAIN fs = LiveFiles, NEW aware \in BOOLEAN,
         NEW f, f = ctx[c].handle, NEW e, e = ctx[c].entry, NEW hh, hh = UpdateFileInfo(c, fs, aware)
  PROVE  /\ hh[e].stamp = fs[f].stamp /\ hh[e].sized = (fs[f].data # 0 \/ (aware /\ heap[e].sized))
         /\ \A x \in LiveEntries \ {e} : hh[x] = heap[x]
<1> DEFINE n == [stamp |-> fs[f].stamp, sized |-> fs[f].data # 0 \/ (aware /\ heap[e].sized)]
<1>1. hh = [heap EXCEPT ![e] = n] BY DEF UpdateFileInfo
<1>2. n.stamp = fs[f].stamp /\ n.sized = (fs[f].data # 0 \/ (aware /\ heap[e].sized)) OBVIOUS
<1> HIDE DEF n
<1>3. e \in LiveEntries BY CleanedIsOK
<1>4. DOMAIN heap = LiveEntries /\ HeapOK(heap) BY TypesApart
<1>5. hh[e] = n /\ \A x \in LiveEntries \ {e} : hh[x] = heap[x] BY <1>1, <1>3, <1>4 DEF HeapOK
<1> QED BY <1>2, <1>5

LEMMA WorkFits ==
  ASSUME TypeOK, TypeOK', Calm, Apart, NEW h \in Contents, \A r \in Paths : PathOK(h, r),
         NEW c \in Contexts, Work(c)
  PROVE  Fit'
<1>1. /\ IsOpen(c) /\ SameUse /\ UNCHANGED <<remote, cacheAt, mOpen, headCache, deleting>>
      /\ \A d \in Contexts \ {c} : ctx'[d] = ctx[d]
      /\ ctx[c].modify => ctx'[c].modify
  BY WorkKeeps
<1>2. PICK p \in Paths : p = ctx[c].path BY <1>1, Types DEF UserTyped
<1>3. clock \in Nat /\ Typed(p) /\ PathOK(h, p) /\ DOMAIN file = LiveFiles /\ DiskOK(file) /\ truth \in [Paths -> Nat \cup {NULL}]
  BY Types, TypesApart
<1>4. /\ c \in Users(p) /\ (Live(h, p) \/ Condemned(p)) /\ ctx[c].name = p
      /\ ctx[c].handle = cacheAt[p] /\ ctx[c].entry = mOpen[p].entry
      /\ cacheAt[p] # NULL /\ mOpen[p].entry # NULL
      /\ cacheAt[p] \in LiveFiles /\ mOpen[p].entry \in LiveEntries
  BY <1>1, <1>2, <1>3, OpenHas
<1>0. PICK f, e : f = cacheAt[p] /\ e = mOpen[p].entry OBVIOUS
<1>a. f = ctx[c].handle /\ e = ctx[c].entry BY <1>0, <1>4
<1>5. /\ file[f].data \in Nat /\ file[f].stamp \in Nat /\ file[f].stamp <= clock
      /\ file[f].data \in {0, h[file[f].stamp]} /\ heap[e].sized \in BOOLEAN /\ heap[e].stamp <= clock
      /\ heap[e].stamp \in Nat /\ file[f].pending \in BOOLEAN
  BY <1>0, <1>3, <1>4 DEF Typed, PathOK, FileOK, EntryOK
<1>6. /\ Live(h, p) => /\ truth[p] \in Nat /\ file[f].stamp = heap[e].stamp /\ heap[e].sized = (truth[p] # 0)
                       /\ h[heap[e].stamp] = truth[p] /\ p \notin deleting
                       /\ file[f].data = 0 /\ truth[p] # 0 => Matches(p)
                       /\ file[f].data \in {0, truth[p]}
      /\ Condemned(p) => p \in deleting /\ truth[p] = NULL /\ ~Reachable(f)
  BY <1>0, <1>3, <1>5 DEF Live, Condemned, Gone, Reachable, Typed
<1>7. Agree(h, h) BY DEF Agree
<1>8. ASSUME NEW o \in SyncContent(c)
      PROVE  /\ o.file[f].stamp = file[f].stamp /\ o.file[f].pending = file[f].pending
             /\ \A x \in LiveFiles \ {f} : o.file[x] = file[x]
             /\ DOMAIN o.file = LiveFiles /\ DiskOK(o.file)
             /\ o.file[f].data \in {0, h[file[f].stamp]}
             /\ o.file[f].data = 0 => file[f].data = 0
  <2>1. DOMAIN o.file = LiveFiles /\ DiskOK(o.file) BY <1>0, <1>1, <1>4, SyncContentFits, Types DEF UserTyped
  <2>2. CASE o.file = file BY <1>0, <1>5, <2>1, <2>2
  <2>3. CASE /\ heap[ctx[c].entry].sized /\ Reachable(ctx[c].handle) /\ file[ctx[c].handle].data = 0
             /\ remote[ctx[c].path] # NULL /\ remote[ctx[c].path].data # 0
             /\ o.file = [file EXCEPT ![ctx[c].handle].data = remote[ctx[c].path].data,
                                      ![ctx[c].handle].stamp = heap[ctx[c].entry].stamp]
    <3>0. /\ heap[e].sized /\ Reachable(f) /\ file[f].data = 0 /\ remote[p] # NULL /\ remote[p].data # 0
          /\ o.file = [file EXCEPT ![f].data = remote[p].data, ![f].stamp = heap[e].stamp]
      BY <1>0, <1>2, <1>4, <2>3
    <3>1. Live(h, p) BY <1>0, <1>4, <1>6, <3>0
    <3>2. truth[p] # 0 BY <1>0, <1>6, <3>0, <3>1
    <3>3. Matches(p) BY <1>0, <1>6, <3>0, <3>1, <3>2
    <3>4. remote[p].data \in Nat BY <1>0, <1>3, <3>0 DEF Typed
    <3>5. /\ o.file[f].data = remote[p].data /\ o.file[f].stamp = heap[e].stamp
          /\ o.file[f].pending = file[f].pending /\ \A x \in LiveFiles \ {f} : o.file[x] = file[x]
      <4>1. o.file = DataAndStamp(file, f, remote[p].data, heap[e].stamp) BY <3>0 DEF DataAndStamp
      <4>2. f \in DOMAIN file BY <1>0, <1>3, <1>4
      <4> QED BY <1>3, <1>5, <3>4, <4>1, <4>2, Edited
    <3> QED BY <1>0, <1>6, <2>1, <3>0, <3>1, <3>3, <3>5 DEF Matches
  <2>4. heap[ctx[c].entry].sized \in BOOLEAN BY <1>0, <1>4, <1>5
  <2> QED BY <1>0, <2>2, <2>3, <2>4, SyncContentGives
<1>9. CASE Read(c)
  <2>1. PICK o \in SyncContent(c) : file' = o.file BY <1>0, <1>9 DEF Read
  <2>2. UNCHANGED <<heap, ctx, truth, clock>> BY <1>0, <1>9 DEF Read
  <2>3. WorksOn(h, h, p) BY <1>0, <1>5, <1>6, <1>8, <2>1, <2>2, NullIsNoObject DEF WorksOn
  <2>4. Live(h, p) /\ file'[f].data = 0 /\ truth'[p] # 0 => Matches(p) BY <1>0, <1>6, <1>8, <2>1, <2>2
  <2> QED BY <1>0, <1>1, <1>2, <1>3, <1>7, <1>8, <2>1, <2>2, <2>3, <2>4, InPlaceFits
<1>10. CASE Flush(c)
  <2>1. heap' = UpdateFileInfo(c, file, TRUE) /\ UNCHANGED <<file, ctx, truth, clock>> BY <1>0, <1>10 DEF Flush
  <2>2. PICK aware \in BOOLEAN : aware = TRUE OBVIOUS
  <2>3. /\ heap'[e].stamp = file[f].stamp /\ heap'[e].sized = (file[f].data # 0 \/ (aware /\ heap[e].sized))
        /\ \A x \in LiveEntries \ {e} : heap'[x] = heap[x]
    <3>1. heap' = UpdateFileInfo(c, file, aware) BY <2>1, <2>2
    <3> QED BY <1>1, <1>3, <1>a, <3>1, InfoIs
  <2>4. WorksOn(h, h, p) BY <1>0, <1>5, <1>6, <2>1, <2>2, <2>3, NullIsNoObject DEF WorksOn
  <2>5. Live(h, p) /\ file'[f].data = 0 /\ truth'[p] # 0 => Matches(p) BY <1>0, <1>6, <2>1
  <2>6. \A x \in LiveEntries \ {mOpen[p].entry} : heap'[x] = heap[x] BY <1>0, <2>3
  <2>7. /\ \A x \in LiveFiles \ {cacheAt[p]} : file'[x] = file[x]
        /\ \A r \in Paths \ {p} : truth'[r] = truth[r]
        /\ clock <= clock'
    BY <1>3, <2>1
  <2>8. Live(h, p) /\ file'[cacheAt[p]].data = 0 /\ truth'[p] # 0 => Matches(p) BY <1>0, <2>5
  <2> QED BY <1>1, <1>2, <1>7, <2>4, <2>6, <2>7, <2>8, InPlaceFits
<1>11. CASE Write(c)
  <2>1. PICK o \in SyncContent(c) :
       IF o.ok
       THEN LET fs == [o.file EXCEPT ![ctx[c].handle].data = clock', ![ctx[c].handle].stamp = clock']
            IN /\ clock' = clock + 1
               /\ file' = fs
               /\ heap' = UpdateFileInfo(c, fs, TRUE)
               /\ ctx' = [ctx EXCEPT ![c].modify = TRUE]
               /\ Stored(c, clock')
       ELSE UNCHANGED <<file, heap, ctx, truth, clock>>
    BY <1>0, <1>11 DEF Write
  <2>2. CASE ~o.ok
    <3>1. UNCHANGED <<file, heap, ctx, truth, clock>> BY <1>0, <2>1, <2>2
    <3>2. WorksOn(h, h, p) BY <1>0, <1>5, <1>6, <3>1, NullIsNoObject DEF WorksOn
    <3>3. Live(h, p) /\ file'[f].data = 0 /\ truth'[p] # 0 => Matches(p) BY <1>0, <1>6, <3>1
    <3> QED BY <1>0, <1>1, <1>2, <1>3, <1>7, <3>1, <3>2, <3>3, InPlaceFits
  <2>3. CASE o.ok
    <3>1. /\ clock' = clock + 1
          /\ file' = [o.file EXCEPT ![f].data = clock', ![f].stamp = clock']
          /\ heap' = UpdateFileInfo(c, file', TRUE)
          /\ Stored(c, clock')
      BY <1>0, <1>4, <2>1, <2>3
    <3>2. PICK g \in Contents : Agree(g, h) /\ g[clock + 1] = clock + 1
      <4>1. \A x \in Nat : \E g \in Contents : Agree(g, h) /\ g[clock + 1] = x BY NewContent
      <4>2. clock + 1 \in Nat BY <1>3
      <4> QED BY <4>1, <4>2
    <3>3. /\ DiskOK(file') /\ DOMAIN file' = LiveFiles /\ \A x \in LiveFiles \ {f} : file'[x] = file[x]
          /\ file'[f].data = clock + 1 /\ file'[f].stamp = clock + 1 /\ file'[f].pending = file[f].pending
      <4>1. clock' \in Nat /\ DiskOK(o.file) /\ f \in DOMAIN o.file BY <1>0, <1>3, <1>4, <1>8, <3>1
      <4>2. /\ DiskOK(file') /\ DOMAIN file' = DOMAIN o.file /\ \A x \in DOMAIN o.file \ {f} : file'[x] = o.file[x]
            /\ file'[f].data = clock' /\ file'[f].stamp = clock' /\ file'[f].pending = o.file[f].pending
        <5>1. file' = DataAndStamp(o.file, f, clock', clock') BY <1>0, <3>1 DEF DataAndStamp
        <5> QED BY <4>1, <5>1, Edited
      <4> QED BY <1>0, <1>8, <3>1, <4>2
    <3>a. PICK aware \in BOOLEAN : aware = TRUE OBVIOUS
    <3>4. /\ heap'[e].stamp = file'[f].stamp /\ heap'[e].sized = (file'[f].data # 0 \/ (aware /\ heap[e].sized))
          /\ \A x \in LiveEntries \ {e} : heap'[x] = heap[x]
      <4>1. heap' = UpdateFileInfo(c, file', aware) BY <3>1, <3>a
      <4> QED BY <1>1, <1>a, <3>3, <4>1, InfoIs
    <3>5. heap'[e].stamp = clock + 1 /\ heap'[e].sized
      <4>1. clock + 1 # 0 BY <1>0, <1>3
      <4> QED BY <1>0, <3>3, <3>4, <3>a, <4>1
    <3>6. /\ \A r \in Paths \ {p} : truth'[r] = truth[r]
          /\ truth'[p] = IF p \in deleting THEN truth[p] ELSE clock + 1
      BY <1>0, <1>3, <1>4, <3>1 DEF Stored
    <3>7. ctx'[c].modify
      <4>1. ctx' = [ctx EXCEPT ![c] = [ctx[c] EXCEPT !.modify = TRUE]] BY <1>0, <2>1, <2>3
      <4>2. ContextsOK(ctx) BY TypesApart
      <4>3. ctx[c] \in Context BY <4>2 DEF ContextsOK, ContextOK
      <4> QED BY <4>1, <4>2, <4>3 DEF ContextsOK, Context
    <3>8. WorksOn(g, h, p)
      <4>1. clock + 1 # 0 /\ clock + 1 # NULL /\ clock + 1 \in Nat BY <1>0, <1>3, NullIsNoObject
      <4>2. Live(h, p) => \E d \in Users(p) : ctx'[d].modify BY <1>0, <1>4, <3>7
      <4>3. Live(h, p) => truth'[p] = clock + 1 BY <1>0, <1>6, <3>6
      <4>4. Condemned(p) => truth'[p] = NULL BY <1>0, <1>6, <3>6
      <4>5. g[clock + 1] = clock + 1 /\ clock' = clock + 1 BY <3>1, <3>2
      <4>6. heap[e].stamp <= clock' /\ clock + 1 <= clock' BY <1>0, <1>3, <1>5, <3>1
      <4>7. /\ file'[f].pending = file[f].pending /\ file'[f].stamp = clock + 1 /\ file'[f].data = clock + 1
            /\ heap'[e].stamp = clock + 1 /\ heap'[e].sized = TRUE
        BY <3>3, <3>5, <3>4
      <4> QED BY <1>0, <4>1, <4>2, <4>3, <4>4, <4>5, <4>6, <4>7 DEF WorksOn
    <3>9. Live(h, p) /\ file'[f].data = 0 /\ truth'[p] # 0 => Matches(p) BY <1>0, <1>3, <3>3
    <3>10. clock <= clock' BY <1>0, <1>3, <3>1
    <3> QED BY <1>0, <1>1, <1>2, <3>2, <3>3, <3>4, <3>6, <3>8, <3>9, <3>10, InPlaceFits
  <2> QED BY <1>0, <2>2, <2>3
<1>12. ASSUME NEW n \in Nat, clock' = clock + 1, ctx' = [ctx EXCEPT ![c].modify = TRUE],
              file'[f].data = n, file'[f].stamp = clock + 1, file'[f].pending = file[f].pending,
              \A x \in LiveFiles \ {f} : file'[x] = file[x], DiskOK(file'), DOMAIN file' = LiveFiles,
              NEW aware \in BOOLEAN, heap' = UpdateFileInfo(c, file', aware),
              \A r \in Paths \ {p} : truth'[r] = truth[r],
              Condemned(p) => truth'[p] = NULL,
              Live(h, p) => /\ truth'[p] \in Nat /\ n \in {0, truth'[p]}
                            /\ (n # 0 \/ (aware /\ heap[e].sized)) = (truth'[p] # 0)
                            /\ n = 0 /\ truth'[p] # 0 => truth'[p] = truth[p] /\ Matches(p)
      PROVE  Fit'
  <2>1. PICK v \in Nat : v = IF Live(h, p) THEN truth'[p] ELSE n BY <1>0, <1>12
  <2>2. PICK g \in Contents : Agree(g, h) /\ g[clock + 1] = v BY <1>0, <1>3, NewContent
  <2>3. /\ heap'[e].stamp = file'[f].stamp /\ heap'[e].sized = (file'[f].data # 0 \/ (aware /\ heap[e].sized))
        /\ \A x \in LiveEntries \ {e} : heap'[x] = heap[x]
    BY <1>0, <1>1, <1>4, <1>12, InfoIs
  <2>4. heap'[e].stamp = clock + 1 /\ heap'[e].sized = (n # 0 \/ (aware /\ heap[e].sized))
    BY <1>0, <1>12, <2>3
  <2>5. ctx'[c].modify
    <3>1. ctx' = [ctx EXCEPT ![c] = [ctx[c] EXCEPT !.modify = TRUE]] BY <1>0, <1>12
    <3>2. ContextsOK(ctx) BY TypesApart
    <3>3. ctx[c] \in Context BY <1>0, <3>2 DEF ContextsOK, ContextOK
    <3> QED BY <1>0, <3>1, <3>2, <3>3 DEF ContextsOK, Context
  <2>6. WorksOn(g, h, p)
    <3>1. Live(h, p) => v = truth'[p] /\ truth'[p] # NULL /\ n \in {0, v} BY <1>0, <1>12, <2>1, NullIsNoObject
    <3>2. ~Live(h, p) => n = v BY <1>0, <2>1
    <3>3. \E d \in Users(p) : ctx'[d].modify BY <1>0, <1>4, <2>5
    <3> QED BY <1>0, <1>3, <1>12, <2>2, <2>4, <3>1, <3>2, <3>3 DEF WorksOn
  <2>7. clock <= clock' BY <1>0, <1>3, <1>12
  <2>8. Live(h, p) /\ file'[f].data = 0 /\ truth'[p] # 0 => Matches(p) BY <1>0, <1>12
  <2> QED BY <1>0, <1>1, <1>2, <1>12, <2>2, <2>3, <2>6, <2>7, <2>8, InPlaceFits
<1>13. CASE Truncate(c)
  <2>1. /\ clock' = clock + 1
        /\ file' = [file EXCEPT ![f].data = 0, ![f].stamp = clock']
        /\ heap' = UpdateFileInfo(c, file', FALSE)
        /\ ctx' = [ctx EXCEPT ![c].modify = TRUE]
        /\ Stored(c, 0)
    BY <1>0, <1>4, <1>13 DEF Truncate
  <2>2. /\ DiskOK(file') /\ DOMAIN file' = LiveFiles /\ \A x \in LiveFiles \ {f} : file'[x] = file[x]
        /\ file'[f].data = 0 /\ file'[f].stamp = clock + 1 /\ file'[f].pending = file[f].pending
    <3>1. clock' \in Nat /\ 0 \in Nat /\ f \in DOMAIN file BY <1>0, <1>3, <1>4, <2>1
    <3>2. /\ DiskOK(file') /\ DOMAIN file' = DOMAIN file /\ \A x \in DOMAIN file \ {f} : file'[x] = file[x]
          /\ file'[f].data = 0 /\ file'[f].stamp = clock' /\ file'[f].pending = file[f].pending
      <4>1. file' = DataAndStamp(file, f, 0, clock') BY <1>0, <2>1 DEF DataAndStamp
      <4> QED BY <1>3, <3>1, <4>1, Edited
    <3> QED BY <1>0, <1>3, <2>1, <3>2
  <2>3. /\ \A r \in Paths \ {p} : truth'[r] = truth[r]
        /\ truth'[p] = IF p \in deleting THEN truth[p] ELSE 0
    BY <1>0, <1>3, <1>4, <2>1 DEF Stored
  <2>4. Condemned(p) => truth'[p] = NULL BY <1>0, <1>6, <2>3
  <2>5. Live(h, p) => truth'[p] = 0 BY <1>0, <1>6, <2>3
  <2>6. FALSE \in BOOLEAN /\ 0 \in Nat OBVIOUS
  <2>7. Live(h, p) => /\ truth'[p] \in Nat /\ 0 \in {0, truth'[p]}
                      /\ (0 # 0 \/ (FALSE /\ heap[e].sized)) = (truth'[p] # 0)
                      /\ 0 = 0 /\ truth'[p] # 0 => truth'[p] = truth[p] /\ Matches(p)
    BY <1>0, <2>5
  <2> QED BY <1>0, <2>1, <2>2, <2>3, <2>4, <2>6, <2>7, <1>12
<1>14. CASE SetBasicInfo(c)
  <2>1. /\ clock' = clock + 1
        /\ file' = [file EXCEPT ![f].stamp = clock']
        /\ heap' = UpdateFileInfo(c, file', TRUE)
        /\ ctx' = [ctx EXCEPT ![c].modify = TRUE]
        /\ UNCHANGED truth
    BY <1>0, <1>4, <1>14 DEF SetBasicInfo
  <2>2. /\ DiskOK(file') /\ DOMAIN file' = LiveFiles /\ \A x \in LiveFiles \ {f} : file'[x] = file[x]
        /\ file'[f].data = file[f].data /\ file'[f].stamp = clock + 1 /\ file'[f].pending = file[f].pending
    <3>1. clock' \in Nat /\ f \in DOMAIN file BY <1>0, <1>3, <1>4, <2>1
    <3>2. /\ DiskOK(file') /\ DOMAIN file' = DOMAIN file /\ \A x \in DOMAIN file \ {f} : file'[x] = file[x]
          /\ file'[f].data = file[f].data /\ file'[f].stamp = clock' /\ file'[f].pending = file[f].pending
      <4>1. file' = StampAlone(file, f, clock') BY <1>0, <2>1 DEF StampAlone
      <4> QED BY <1>3, <1>5, <3>1, <4>1, Edited
    <3> QED BY <1>0, <1>3, <2>1, <3>2
  <2>3. PICK n \in Nat : n = file[f].data BY <1>0, <1>5
  <2>4. TRUE \in BOOLEAN OBVIOUS
  <2>5. Live(h, p) => /\ truth'[p] \in Nat /\ n \in {0, truth'[p]}
                      /\ (n # 0 \/ (TRUE /\ heap[e].sized)) = (truth'[p] # 0)
                      /\ n = 0 /\ truth'[p] # 0 => truth'[p] = truth[p] /\ Matches(p)
    BY <1>0, <1>6, <2>1, <2>3
  <2>6. Condemned(p) => truth'[p] = NULL BY <1>0, <1>6, <2>1
  <2>7. file'[f].data = n BY <1>0, <2>2, <2>3
  <2>8. \A r \in Paths \ {p} : truth'[r] = truth[r] BY <1>0, <2>1
  <2> QED BY <1>0, <2>1, <2>2, <2>4, <2>5, <2>6, <2>7, <2>8, <1>12
<1> QED BY <1>0, <1>9, <1>10, <1>11, <1>13, <1>14 DEF Work


LEMMA SetDeleteFits ==
  ASSUME TypeOK, TypeOK', Calm, Apart, NEW h \in Contents, \A r \in Paths : PathOK(h, r),
         NEW c \in Contexts, SetDelete(c)
  PROVE  Fit'
<1>1. IsOpen(c) /\ UNCHANGED <<cacheAt, mOpen, ctx, clock>> /\ Heap(heap) BY DEF SetDelete
<1>2. PICK p \in Paths : p = ctx[c].path BY <1>1, Types DEF UserTyped
<1>3. /\ clock \in Nat /\ Typed(p) /\ Typed(p)' /\ PathOK(h, p) /\ DOMAIN file = LiveFiles /\ DiskOK(file)
      /\ truth \in [Paths -> Nat \cup {NULL}] /\ remote \in Buckets /\ headCache \in HeadCaches
  BY Types, TypesThen, TypesApart
<1>4. /\ c \in Users(p) /\ Counted(p) /\ UsersOK(p) /\ ctx[c].name = p
      /\ ctx[c].handle = cacheAt[p] /\ ctx[c].entry = mOpen[p].entry
      /\ cacheAt[p] # NULL /\ mOpen[p].entry # NULL
      /\ cacheAt[p] \in LiveFiles /\ mOpen[p].entry \in LiveEntries
  BY <1>1, <1>2, <1>3, OpenHas
<1>5. PICK f : f = cacheAt[p] OBVIOUS
<1>6. /\ Deleted(p) /\ deleting' = deleting \cup {p} /\ truth' = [truth EXCEPT ![p] = NULL]
      /\ file' = [file EXCEPT ![f].pending = TRUE]
  BY <1>2, <1>4, <1>5 DEF SetDelete, DeleteFails, Calm, May
<1>7. /\ remote'[p] = NULL /\ truth'[p] = NULL /\ headCache'[p] = NULL /\ p \in deleting'
      /\ \A r \in Paths \ {p} : /\ remote'[r] = remote[r] /\ truth'[r] = truth[r] /\ headCache'[r] = headCache[r]
                                /\ r \in deleting' <=> r \in deleting
  BY <1>3, <1>6 DEF Deleted, Buckets, HeadCaches
<1>8. /\ file'[f].data = file[f].data /\ file'[f].stamp = file[f].stamp /\ file'[f].pending
      /\ \A x \in LiveFiles \ {f} : file'[x] = file[x]
  <2>1. file[f] \in File BY <1>3, <1>4, <1>5 DEF DiskOK
  <2>2. file' = [file EXCEPT ![f] = [file[f] EXCEPT !.pending = TRUE]] BY <1>6
  <2>3. file'[f] = [file[f] EXCEPT !.pending = TRUE] BY <1>3, <1>4, <1>5, <2>2
  <2> QED BY <1>3, <2>1, <2>2, <2>3 DEF File
<1>9. \A x \in LiveEntries' : heap'[x] = heap[x] BY <1>1, HeapIs
<1>10. OnlyAt({p}) BY <1>1, <1>3, <1>5, <1>7, <1>8, <1>9 DEF OnlyAt
<1>11. Apart'
  <2>1. mOpen'[p].entry # ABSENT BY <1>1, <1>4, EntryLeft, NullIsNoObject
  <2> QED BY <1>1, <1>7, <2>1, ApartStays
<1>12. Users(p)' = Users(p) /\ \A d \in Contexts : IsOpen(d)' <=> IsOpen(d) BY <1>1 DEF Users, InUse, IsOpen
<1>13. RemoteOK(h, p)' BY <1>7 DEF RemoteOK
<1>14. FileOK(h, p)' BY <1>1, <1>3, <1>4, <1>5, <1>8, <1>12 DEF PathOK, FileOK
<1>15. EntryOK(p)' BY <1>1, <1>3, <1>4, <1>9 DEF PathOK, EntryOK, Typed
<1>16. HeadOK(h, p)' BY <1>7, NullIsNoObject DEF HeadOK
<1>17. UsersOK(p)' BY <1>1, <1>4, <1>12 DEF UsersOK
<1>18. Counted(p)' BY <1>1, <1>4, <1>12 DEF Counted, Users
<1>19. Condemned(p)' BY <1>1, <1>4, <1>5, <1>7, <1>8, <1>12, <1>18 DEF Condemned, Gone
<1>20. PathOK(h, p)' BY <1>13, <1>14, <1>15, <1>16, <1>17, <1>19 DEF PathOK
<1>21. Agree(h, h) BY DEF Agree
<1> QED BY <1>10, <1>11, <1>20, <1>21, StepFits


(* A context that holds the cache file of p is a user of p.                *)
LEMMA HolderUses ==
  ASSUME TypeOK, Apart, NEW h, \A r \in Paths : PathOK(h, r), NEW p \in Paths, NEW d \in Contexts,
         ctx[d].handle = cacheAt[p], cacheAt[p] # NULL
  PROVE  d \in Users(p)
<1>1. InUse(d) BY Types DEF UserTyped
<1>2. ctx[d].path \in Paths /\ d \in Users(ctx[d].path) BY <1>1, Types DEF UserTyped
<1>3. PICK r \in Paths : r = ctx[d].path BY <1>2
<1>4. UsersOK(r) /\ d \in Users(r) BY <1>2, <1>3 DEF PathOK
<1>5. ctx[d].handle = cacheAt[r] BY <1>4 DEF UsersOK
<1> QED BY <1>4, <1>5 DEF Apart

LEMMA ClosedGives ==
  ASSUME NEW c \in Contexts, NEW at \in [Paths -> Files \cup {NULL}], NEW fs, DiskOK(fs), NEW f, f = ctx[c].handle,
         f \in DOMAIN fs, ctx[c].deleteOnClose \in BOOLEAN, NEW k, k = CloseHandle(c, at, fs)
  PROVE  /\ k.file[f].pending = Goes(c, fs) /\ k.file[f].data = fs[f].data /\ k.file[f].stamp = fs[f].stamp
         /\ \A x \in DOMAIN fs \ {f} : k.file[x] = fs[x]
         /\ Goes(c, fs) /\ LastHandle(c) => \A r \in Paths : k.at[r] = IF at[r] = f THEN NULL ELSE at[r]
         /\ ~(Goes(c, fs) /\ LastHandle(c)) => k.at = at
<1>1. fs[f] \in File BY DEF DiskOK
<1>2. Goes(c, fs) \in BOOLEAN BY <1>1 DEF File, Goes
<1>3. k.file = [fs EXCEPT ![f].pending = Goes(c, fs)] BY DEF CloseHandle, Goes
<1>4. k.at = IF Goes(c, fs) /\ LastHandle(c) THEN [p \in Paths |-> IF at[p] = f THEN NULL ELSE at[p]] ELSE at
  BY DEF CloseHandle, Goes, LastHandle
<1>5. k.file = [fs EXCEPT ![f] = [fs[f] EXCEPT !.pending = Goes(c, fs)]] BY <1>3
<1>6. k.file[f] = [fs[f] EXCEPT !.pending = Goes(c, fs)] /\ \A x \in DOMAIN fs \ {f} : k.file[x] = fs[x]
  BY <1>5 DEF DiskOK
<1>7. /\ k.file[f].pending = Goes(c, fs) /\ k.file[f].data = fs[f].data /\ k.file[f].stamp = fs[f].stamp
  BY <1>1, <1>2, <1>6 DEF File
<1> QED BY <1>4, <1>6, <1>7

LEMMA CleanupFits ==
  ASSUME TypeOK, TypeOK', Calm, Apart, NEW h \in Contents, \A r \in Paths : PathOK(h, r),
         NEW c \in Contexts, Cleanup(c)
  PROVE  Fit'
<1>1. IsOpen(c) /\ UNCHANGED clock BY DEF Cleanup
<1>2. PICK p \in Paths : p = ctx[c].path BY <1>1, Types DEF UserTyped
<1>3. /\ clock \in Nat /\ Typed(p) /\ Typed(p)' /\ PathOK(h, p) /\ DOMAIN file = LiveFiles /\ DiskOK(file)
      /\ truth \in [Paths -> Nat \cup {NULL}] /\ remote \in Buckets /\ headCache \in HeadCaches /\ mOpen \in Tables
      /\ cacheAt \in [Paths -> Files \cup {NULL}] /\ ctx[c].deleteOnClose \in BOOLEAN
  BY <1>1, Types, TypesThen, TypesApart, CleanedIsOK
<1>4. /\ c \in Users(p) /\ (Live(h, p) \/ Condemned(p)) /\ Counted(p) /\ UsersOK(p) /\ ctx[c].name = p
      /\ ctx[c].handle = cacheAt[p] /\ ctx[c].entry = mOpen[p].entry
      /\ cacheAt[p] # NULL /\ mOpen[p].entry # NULL
      /\ cacheAt[p] \in LiveFiles /\ mOpen[p].entry \in LiveEntries
  BY <1>1, <1>2, <1>3, OpenHas
<1>5. /\ ctx'[c].state = "cleaned" /\ ctx'[c].path = p /\ ctx'[c].name = p
      /\ ctx'[c].entry = ctx[c].entry /\ ctx'[c].deleteOnClose = ctx[c].deleteOnClose
      /\ ctx'[c].modify = ctx[c].modify
      /\ ctx'[c].handle = IF CleanupDelete(c) THEN NULL ELSE ctx[c].handle
      /\ \A d \in Contexts \ {c} : ctx'[d] = ctx[d]
  BY <1>2, <1>4, CleanupKeeps
<1>6. Users(p)' = Users(p)
  <2>1. \A d \in Contexts : ctx'[d].path = ctx[d].path /\ (InUse(d)' <=> InUse(d))
    BY <1>1, <1>2, <1>5 DEF InUse, IsOpen
  <2> QED BY <2>1, UsersStay
<1>7. ~IsOpen(c)' /\ \A d \in Contexts \ {c} : IsOpen(d)' <=> IsOpen(d) BY <1>5 DEF IsOpen
<1> DEFINE last == \A d \in Contexts \ {c} : IsOpen(d) => ctx[d].name # p
<1>8. last <=> \A d \in Users(p) \ {c} : ~IsOpen(d)
  <2>1. ASSUME NEW d \in Contexts \ {c}, IsOpen(d), ctx[d].name = p PROVE d \in Users(p)
    <3>1. PICK r \in Paths : r = ctx[d].path BY <2>1, Types DEF UserTyped
    <3>2. ctx[d].name = r /\ d \in Users(r) BY <2>1, <3>1, OpenHas
    <3> QED BY <2>1, <3>2
  <2>2. \A d \in Users(p) : d \in Contexts /\ ctx[d].name = p BY <1>4 DEF UsersOK, Users
  <2> QED BY <2>1, <2>2
<1>9. Agree(h, h) BY DEF Agree
<1>10. PICK f : f = cacheAt[p] OBVIOUS
<1>11. CASE last /\ (p \in deleting \/ ctx[c].deleteOnClose)
  <2>1. CleanupDelete(c) BY <1>4, <1>11 DEF Cleanup
  <2>2. PICK disk : disk = CloseHandle(c, cacheAt, file) OBVIOUS
  <2>3. /\ cacheAt' = disk.at /\ mOpen' = Release(mOpen, p) /\ deleting' = deleting \ {p}
        /\ Disk(disk.file) /\ Heap(heap)
        /\ IF (cacheAt[p] # NULL /\ ~file[cacheAt[p]].pending) /\ ~(disk.at[p] # NULL /\ ~disk.file[disk.at[p]].pending)
           THEN Deleted(p) \/ DeleteFails(p)
           ELSE UNCHANGED <<remote, headCache>>
    BY <1>2, <1>4, <2>1, <2>2 DEF CleanupDelete
  <2>4. Goes(c, file) BY <1>4, <1>11 DEF Goes, Live, Condemned
  <2>5. /\ disk.file[f].pending /\ disk.file[f].data = file[f].data /\ disk.file[f].stamp = file[f].stamp
        /\ \A x \in LiveFiles \ {f} : disk.file[x] = file[x]
        /\ LastHandle(c) => \A r \in Paths : disk.at[r] = IF cacheAt[r] = f THEN NULL ELSE cacheAt[r]
        /\ ~LastHandle(c) => disk.at = cacheAt
    <3>1. f = ctx[c].handle /\ f \in DOMAIN file BY <1>3, <1>4, <1>10
    <3>2. /\ disk.file[f].pending = Goes(c, file) /\ disk.file[f].data = file[f].data /\ disk.file[f].stamp = file[f].stamp
          /\ \A x \in DOMAIN file \ {f} : disk.file[x] = file[x]
          /\ Goes(c, file) /\ LastHandle(c) => \A r \in Paths : disk.at[r] = IF cacheAt[r] = f THEN NULL ELSE cacheAt[r]
          /\ ~(Goes(c, file) /\ LastHandle(c)) => disk.at = cacheAt
      BY <1>3, <2>2, <3>1, ClosedGives
    <3> QED BY <1>3, <2>4, <3>2
  <2>6. /\ cacheAt'[p] = IF LastHandle(c) THEN NULL ELSE f
        /\ \A r \in Paths \ {p} : cacheAt'[r] = cacheAt[r]
    <3>1. \A r \in Paths \ {p} : cacheAt[r] # f BY <1>4, <1>10 DEF Apart
    <3> QED BY <1>10, <2>3, <2>5, <3>1
  <2>7. /\ truth'[p] = NULL /\ \A r \in Paths \ {p} : truth'[r] = truth[r]
    <3>1. truth' = IF ctx[c].deleteOnClose THEN [truth EXCEPT ![p] = NULL] ELSE truth BY <1>4 DEF Cleanup
    <3>2. ~ctx[c].deleteOnClose => truth[p] = NULL BY <1>4, <1>11 DEF Live, Condemned, Gone
    <3> QED BY <1>3, <3>1, <3>2
  <2>8. /\ remote'[p] = NULL /\ headCache'[p] \in {NULL, ABSENT} /\ headCache'[p] \in {NULL, headCache[p]}
        /\ \A r \in Paths \ {p} : remote'[r] = remote[r] /\ headCache'[r] = headCache[r]
    <3>1. ~(disk.at[p] # NULL /\ ~disk.file[disk.at[p]].pending) BY <2>3, <2>5, <2>6
    <3>2. CASE ~file[cacheAt[p]].pending
      <4>1. Deleted(p) BY <1>4, <2>3, <3>1, <3>2 DEF DeleteFails, Calm, May
      <4> QED BY <1>3, <4>1 DEF Deleted, Buckets, HeadCaches
    <3>3. CASE file[cacheAt[p]].pending
      <4>1. UNCHANGED <<remote, headCache>> BY <2>3, <3>3
      <4>2. Gone(p) BY <1>4, <3>3 DEF Live, Condemned
      <4> QED BY <4>1, <4>2 DEF Gone
    <3> QED BY <3>2, <3>3
  <2>9. /\ \A r \in Paths \ {p} : mOpen'[r] = mOpen[r]
        /\ mOpen'[p].entry \in {NULL, mOpen[p].entry}
    <3>1. /\ \A q \in Paths \ {p} : Release(mOpen, p)[q] = mOpen[q]
          /\ mOpen[p].ref > 1 => Release(mOpen, p)[p].entry = mOpen[p].entry
          /\ mOpen[p].ref <= 1 => Release(mOpen, p)[p] = Unregistered
      BY <1>3, ReleaseGives
    <3>2. mOpen[p].ref \in Nat BY <1>3 DEF Typed
    <3> QED BY <2>3, <3>1, <3>2 DEF Unregistered
  <2>10. \A x \in LiveEntries' : heap'[x] = heap[x] BY <2>3, HeapIs
  <2>11. \A x \in LiveFiles' : file'[x] = disk.file[x] BY <2>3, DiskIs
  <2>12. OnlyAt({p})
    <3>1. \A d \in Contexts : ctx'[d] = ctx[d] \/ (ctx[d].path = p /\ ctx'[d].path = p) BY <1>2, <1>5
    <3>2. \A x \in LiveFiles \cap LiveFiles' : cacheAt[p] # x => file'[x] = file[x] BY <1>10, <2>5, <2>11
    <3> QED BY <1>1, <1>3, <2>3, <2>6, <2>7, <2>8, <2>9, <2>10, <3>1, <3>2 DEF OnlyAt
  <2>13. Apart'
    <3>1. mOpen'[p].entry # ABSENT BY <1>4, <2>9, EntryLeft, NullIsNoObject
    <3> QED BY <1>10, <2>6, <2>8, <2>9, <3>1, ApartStays
  <2>14. \A d \in Users(p) \ {c} : ctx'[d] = ctx[d] /\ ~IsOpen(d) BY <1>5, <1>8, <1>11 DEF Users
  <2>15. \A d \in Users(p) \ {c} : ctx[d].handle = f BY <1>4, <1>10, LiveHas
  <2>16. cacheAt'[p] # NULL => \E d \in Users(p) \ {c} : ctx[d].handle # NULL
    <3> SUFFICES ASSUME cacheAt'[p] # NULL PROVE \E d \in Users(p) \ {c} : ctx[d].handle # NULL OBVIOUS
    <3>1. PICK d \in Contexts \ {c} : ctx[d].handle = f BY <1>4, <1>10, <2>6 DEF LastHandle
    <3>2. d \in Users(p) BY <1>4, <1>10, <3>1, HolderUses
    <3> QED BY <1>4, <1>10, <3>1, <3>2
  <2>17. \A d \in Users(p) \ {c} : cacheAt'[p] = f
    <3>1. \A d \in Users(p) \ {c} : d \in Contexts BY DEF Users
    <3> QED BY <1>4, <1>10, <2>6, <2>15, <3>1 DEF LastHandle
  <2>18. cacheAt'[p] # NULL => file'[cacheAt'[p]] = disk.file[f] /\ cacheAt'[p] = f
    BY <1>3, <2>6, <2>11 DEF Typed
  <2>19. ctx'[c].handle = NULL BY <1>5, <2>1
  <2>20. RemoteOK(h, p)' BY <2>8 DEF RemoteOK
  <2>21. FileOK(h, p)'
    <3>1. \A d \in Users(p) \ {c} : ctx'[d].handle = ctx[d].handle BY <2>14
    <3>2. file[f].stamp <= clock /\ file[f].data \in {0, h[file[f].stamp]} BY <1>3, <1>4, <1>10 DEF PathOK, FileOK
    <3> QED BY <1>1, <1>6, <2>5, <2>16, <2>18, <3>1, <3>2 DEF FileOK
  <2>22. EntryOK(p)'
    <3>1. mOpen'[p].entry # NULL => heap'[mOpen'[p].entry] = heap[mOpen[p].entry] BY <1>3, <2>9, <2>10 DEF Typed
    <3> QED BY <1>1, <1>3, <1>4, <2>9, <3>1 DEF PathOK, EntryOK
  <2>23. HeadOK(h, p)' BY <2>8, NullIsNoObject DEF HeadOK
  <2>24. UsersOK(p)'
    <3> SUFFICES ASSUME NEW d \in Users(p)
                 PROVE  ctx'[d].name = p /\ (ctx'[d].handle # NULL => ctx'[d].handle = cacheAt'[p])
      BY <1>6 DEF UsersOK
    <3>1. CASE d = c BY <1>5, <2>19, <3>1
    <3>2. CASE d # c BY <1>4, <2>14, <2>15, <2>17, <3>2 DEF UsersOK
    <3> QED BY <3>1, <3>2
  <2>25. Dead(p)'
    <3>1. Users(p)' # {} /\ p \notin deleting' BY <1>4, <1>6, <2>3
    <3>2. Gone(p)' BY <2>7, <2>8 DEF Gone
    <3>3. ASSUME NEW d \in Users(p)
          PROVE  ~IsOpen(d)' /\ (ctx'[d].handle # NULL => file'[ctx'[d].handle].pending /\ ~ctx'[d].deleteOnClose)
      <4>1. CASE d = c BY <1>7, <2>19, <4>1
      <4>2. CASE d # c
        <5>1. ctx'[d] = ctx[d] /\ ~IsOpen(d)' BY <1>7, <2>14, <4>2 DEF Users
        <5>2. ctx'[d].handle = cacheAt'[p] /\ cacheAt'[p] = f BY <2>15, <2>17, <4>2, <5>1
        <5>3. file'[ctx'[d].handle].pending BY <1>4, <1>10, <2>5, <2>18, <5>2
        <5>4. ~ctx[d].deleteOnClose BY <1>4, <2>14, <4>2 DEF Counted
        <5> QED BY <5>1, <5>3, <5>4
      <4> QED BY <4>1, <4>2
    <3> QED BY <1>6, <3>1, <3>2, <3>3 DEF Dead
  <2>26. PathOK(h, p)' BY <2>20, <2>21, <2>22, <2>23, <2>24, <2>25 DEF PathOK
  <2> QED BY <1>9, <2>12, <2>13, <2>26, StepFits
<1>12. CASE ~(last /\ (p \in deleting \/ ctx[c].deleteOnClose))
  <2>1. ~ctx[c].deleteOnClose BY <1>1, <1>4, <1>8, <1>12 DEF Counted
  <2>2. /\ UNCHANGED <<remote, cacheAt, file, heap, mOpen, headCache, deleting, truth>>
        /\ ctx' = [ctx EXCEPT ![c].state = "cleaned"]
    BY <1>4, <1>12, <2>1 DEF Cleanup
  <2>3. ctx'[c].handle = ctx[c].handle
    <3>1. ContextsOK(ctx) /\ ctx[c] \in Context BY <1>1, TypesApart, CleanedIsOK
    <3>2. ctx' = [ctx EXCEPT ![c] = [ctx[c] EXCEPT !.state = "cleaned"]] BY <2>2
    <3>3. ctx'[c] = [ctx[c] EXCEPT !.state = "cleaned"] BY <3>1, <3>2 DEF ContextsOK
    <3> QED BY <3>1, <3>3 DEF Context
  <2>4. \A d \in Users(p) : /\ ctx'[d].handle = ctx[d].handle /\ ctx'[d].name = ctx[d].name
                            /\ ctx'[d].entry = ctx[d].entry /\ ctx'[d].modify = ctx[d].modify
                            /\ ctx'[d].deleteOnClose = ctx[d].deleteOnClose
                            /\ IsOpen(d)' => IsOpen(d)
    BY <1>4, <1>5, <1>7, <2>3 DEF Users
  <2>5. OnlyAt({p})
    <3>1. \A d \in Contexts : ctx'[d] = ctx[d] \/ (ctx[d].path = p /\ ctx'[d].path = p) BY <1>2, <1>5
    <3> QED BY <1>1, <1>3, <2>2, <3>1 DEF OnlyAt
  <2>6. Apart' BY <2>2 DEF Apart
  <2>7. RemoteOK(h, p)' /\ EntryOK(p)' /\ HeadOK(h, p)' BY <1>1, <1>3, <2>2 DEF PathOK, RemoteOK, EntryOK, HeadOK
  <2>8. FileOK(h, p)' BY <1>1, <1>3, <1>6, <2>2, <2>4 DEF PathOK, FileOK
  <2>9. UsersOK(p)' BY <1>4, <1>6, <2>2, <2>4 DEF UsersOK
  <2>10. Counted(p)'
    <3>1. ASSUME NEW d \in Users(p), ctx[d].deleteOnClose PROVE IsOpen(d)' /\ \A k \in Users(p) \ {d} : ~IsOpen(k)'
      <4>1. d # c /\ IsOpen(d) /\ \A k \in Users(p) \ {d} : ~IsOpen(k) BY <1>4, <2>1, <3>1 DEF Counted
      <4> QED BY <1>7, <2>4, <4>1 DEF Users
    <3> QED BY <1>4, <1>6, <2>2, <2>4, <3>1 DEF Counted
  <2>11. Live(h, p) => Live(h, p)'
    <3>1. Matches(p)' <=> Matches(p) BY <2>2 DEF Matches
    <3>2. (\E d \in Users(p) : ctx[d].modify) => \E d \in Users(p)' : ctx'[d].modify BY <1>6, <2>4
    <3> QED BY <1>6, <2>2, <2>10, <3>1, <3>2 DEF Live
  <2>12. Condemned(p) => Condemned(p)'
    <3> SUFFICES ASSUME Condemned(p) PROVE Condemned(p)' OBVIOUS
    <3>1. PICK d \in Users(p) \ {c} : IsOpen(d) BY <1>8, <1>12 DEF Condemned
    <3>2. d \in Users(p)' /\ IsOpen(d)' BY <1>6, <1>7, <3>1 DEF Users
    <3> QED BY <2>2, <2>10, <3>2 DEF Condemned, Gone
  <2>13. PathOK(h, p)' BY <1>4, <2>7, <2>8, <2>9, <2>11, <2>12 DEF PathOK
  <2> QED BY <1>9, <2>5, <2>6, <2>13, StepFits
<1> QED BY <1>11, <1>12


(* The cache file of a live path after syncContent: complete, unless the   *)
(* download failed, and then the bucket has all of it.                     *)
LEMMA SyncLive ==
  ASSUME TypeOK, NEW h, NEW p \in Paths, PathOK(h, p), Live(h, p), NEW c \in Contexts, c \in Users(p),
         NEW f, f = cacheAt[p], NEW o \in SyncContent(c)
  PROVE  /\ DOMAIN o.file = LiveFiles /\ DiskOK(o.file) /\ \A x \in LiveFiles \ {f} : o.file[x] = file[x]
         /\ o.file[f].stamp = file[f].stamp /\ ~o.file[f].pending /\ o.file[f].data \in {0, truth[p]}
         /\ o.file[f].data = 0 => file[f].data = 0
         /\ o.ok => o.file[f].data = truth[p]
         /\ ~o.ok => Matches(p)
<1>1. /\ Typed(p) /\ DOMAIN file = LiveFiles /\ DiskOK(file) /\ UsersOK(p) /\ Counted(p) /\ Users(p) # {}
  BY Types, TypesApart DEF PathOK, Live
<1>2. /\ cacheAt[p] # NULL /\ mOpen[p].entry # NULL
      /\ ctx[c].handle = f /\ ctx[c].entry = mOpen[p].entry /\ ctx[c].path = p /\ InUse(c)
  BY <1>1, LiveHas DEF Users
<1>3. PICK e : e = mOpen[p].entry OBVIOUS
<1>4. /\ f \in LiveFiles /\ file[f].data \in Nat /\ file[f].stamp \in Nat /\ file[f].pending = FALSE
      /\ heap[e].sized \in BOOLEAN /\ heap[e].stamp \in Nat /\ truth[p] \in Nat
      /\ file[f].stamp = heap[e].stamp /\ heap[e].sized = (truth[p] # 0) /\ h[heap[e].stamp] = truth[p]
      /\ file[f].data = 0 /\ truth[p] # 0 => Matches(p)
  BY <1>1, <1>2, <1>3 DEF Typed, Live
<1>5. file[f].data \in {0, truth[p]} BY <1>2, <1>4 DEF PathOK, FileOK
<1>6. Reachable(f) BY <1>4 DEF Reachable
<1>7. DOMAIN o.file = LiveFiles /\ DiskOK(o.file) BY <1>2, <1>4, SyncContentFits, Types DEF UserTyped, Typed
<1>8. \/ /\ o.file = file
         /\ o.ok => ~heap[e].sized \/ (Reachable(f) /\ file[f].data # 0)
         /\ ~o.ok => heap[e].sized /\ (Reachable(f) => file[f].data = 0)
      \/ /\ o.ok /\ heap[e].sized /\ Reachable(f) /\ file[f].data = 0 /\ remote[p] # NULL /\ remote[p].data # 0
         /\ o.file = [file EXCEPT ![f].data = remote[p].data, ![f].stamp = heap[e].stamp]
  <2>1. heap[ctx[c].entry].sized \in BOOLEAN BY <1>2, <1>3, <1>4
  <2> QED BY <1>2, <1>3, <2>1, SyncContentGives
<1>9. CASE /\ o.file = file
           /\ o.ok => ~heap[e].sized \/ (Reachable(f) /\ file[f].data # 0)
           /\ ~o.ok => heap[e].sized /\ (Reachable(f) => file[f].data = 0)
  <2>1. o.ok => file[f].data = truth[p] BY <1>4, <1>5, <1>9
  <2>2. ~o.ok => Matches(p) BY <1>4, <1>6, <1>9
  <2> QED BY <1>4, <1>5, <1>7, <1>9, <2>1, <2>2
<1>10. CASE /\ o.ok /\ heap[e].sized /\ Reachable(f) /\ file[f].data = 0 /\ remote[p] # NULL /\ remote[p].data # 0
            /\ o.file = [file EXCEPT ![f].data = remote[p].data, ![f].stamp = heap[e].stamp]
  <2>1. remote[p].data \in Nat BY <1>1, <1>10 DEF Typed
  <2>2. remote[p].data = truth[p] BY <1>4, <1>10 DEF Matches
  <2>3. /\ o.file[f].data = remote[p].data /\ o.file[f].stamp = heap[e].stamp
        /\ o.file[f].pending = file[f].pending /\ \A x \in LiveFiles \ {f} : o.file[x] = file[x]
    <3>1. o.file = DataAndStamp(file, f, remote[p].data, heap[e].stamp) BY <1>10 DEF DataAndStamp
    <3>2. f \in DOMAIN file BY <1>1, <1>4
    <3> QED BY <1>1, <1>4, <2>1, <3>1, <3>2, Edited
  <2> QED BY <1>4, <1>7, <1>10, <2>2, <2>3
<1> QED BY <1>8, <1>9, <1>10


(* What closing a handle of a live path leaves: nothing was sent, or the   *)
(* bucket, and what is cached of it, have the file.                        *)
Unsent(u) == u.remote = remote /\ u.cache = headCache /\ u.heap = heap

Sent(u, h, p) ==
  /\ u.remote[p] # NULL /\ u.remote[p].data = truth[p]
  /\ u.remote[p].stamp <= clock /\ h[u.remote[p].stamp] = truth[p]
  /\ u.cache[p] = NewEntry /\ u.heap[NewEntry].stamp <= clock
  /\ u.heap[NewEntry].sized = (truth[p] # 0) /\ h[u.heap[NewEntry].stamp] = truth[p]

Left(u, h, p, f) ==
  /\ Uploaded(u)
  /\ \A r \in Paths \ {p} : u.remote[r] = remote[r] /\ u.cache[r] = headCache[r]
  /\ \A x \in LiveFiles \ {f} : u.file[x] = file[x]
  /\ u.file[f].stamp = file[f].stamp /\ ~u.file[f].pending /\ u.file[f].data \in {0, truth[p]}
  /\ \/ Unsent(u) /\ (u.file[f].data = 0 => file[f].data = 0)
     \/ Sent(u, h, p)

LEMMA UploadLive ==
  ASSUME TypeOK, Calm, NEW h, NEW p \in Paths, PathOK(h, p), Live(h, p), NEW c \in Contexts, c \in Users(p),
         NEW f, f = cacheAt[p], NEW u \in UploadWhenClosing(c)
  PROVE  Left(u, h, p, f) /\ (Matches(p) \/ Sent(u, h, p))
<1>1. /\ Typed(p) /\ DOMAIN file = LiveFiles /\ UsersOK(p) /\ Counted(p) /\ Users(p) # {} /\ clock \in Nat
      /\ DOMAIN heap = LiveEntries /\ headCache \in HeadCaches /\ remote \in Buckets /\ world \in World
  BY Types, TypesApart, WorldsKnown DEF PathOK, Live
<1>2. /\ cacheAt[p] # NULL /\ mOpen[p].entry # NULL
      /\ ctx[c].handle = f /\ ctx[c].entry = mOpen[p].entry /\ ctx[c].path = p /\ InUse(c)
  BY <1>1, LiveHas DEF Users
<1>3. PICK e : e = mOpen[p].entry OBVIOUS
<1>4. /\ f \in LiveFiles /\ file[f].pending = FALSE /\ heap[e].stamp \in Nat /\ heap[e].stamp <= clock
      /\ truth[p] \in Nat /\ h[heap[e].stamp] = truth[p]
  BY <1>1, <1>2, <1>3 DEF Typed, Live, PathOK, EntryOK
<1>5. Reachable(f) BY <1>4 DEF Reachable
<1>6. Uploaded(u) BY <1>2, UploadFits, Types DEF Typed
<1>7. PICK o \in SyncContent(c) : u \in IF o.ok THEN PutObject(c, o.file) ELSE {NotUploaded(o.file)}
  BY DEF UploadWhenClosing
<1>8. /\ DOMAIN o.file = LiveFiles /\ DiskOK(o.file) /\ \A x \in LiveFiles \ {f} : o.file[x] = file[x]
      /\ o.file[f].stamp = file[f].stamp /\ ~o.file[f].pending /\ o.file[f].data \in {0, truth[p]}
      /\ o.file[f].data = 0 => file[f].data = 0
      /\ o.ok => o.file[f].data = truth[p]
      /\ ~o.ok => Matches(p)
  BY SyncLive
<1>9. CASE ~o.ok
  <2>1. u = NotUploaded(o.file) BY <1>7, <1>9
  <2>2. u.remote = remote /\ u.cache = headCache /\ u.heap = heap /\ u.file = o.file BY <2>1 DEF NotUploaded
  <2> QED BY <1>6, <1>8, <1>9, <2>2 DEF Left, Unsent
<1>10. CASE o.ok
  <2>1. PICK stored, hc : stored = StoredObject(c, o.file) /\ hc = [headCache EXCEPT ![p] = NULL] OBVIOUS
  <2>2. PICK v \in HeadObject(p, stored, hc, heap), s \in world.deleteAfterUpload :
          u = [remote |-> stored, cache |-> v.cache, heap |-> v.heap, file |-> AfterUpload(o.file, f, s)]
    <3>1. u \in PutObject(c, o.file) BY <1>7, <1>10
    <3>2. ~May("put") BY DEF Calm, May
    <3>3. \E o1 \in HeadObject(ctx[c].path, StoredObject(c, o.file), [headCache EXCEPT ![ctx[c].path] = NULL], heap) :
            \E s \in world.deleteAfterUpload :
              u = [remote |-> StoredObject(c, o.file), cache |-> o1.cache, heap |-> o1.heap,
                   file |-> AfterUpload(o.file, ctx[c].handle, s)]
      BY <1>2, <1>5, <3>1, <3>2, PutObjectGives
    <3> QED BY <1>2, <2>1, <3>3
  <2>3. u.remote = stored /\ u.cache = v.cache /\ u.heap = v.heap /\ u.file = AfterUpload(o.file, f, s)
    BY <2>2
  <2> DEFINE x == [data |-> o.file[f].data, stamp |-> heap[e].stamp]
  <2>4. x.data = truth[p] /\ x.stamp = heap[e].stamp /\ x # NULL
    <3>1. x.data = truth[p] /\ x.stamp = heap[e].stamp BY <1>8, <1>10
    <3>2. x \in Object BY <1>4, <1>8, <1>10 DEF Object
    <3> QED BY <3>1, <3>2, NullIsNoObject
  <2>5. stored = [remote EXCEPT ![p] = x] BY <1>2, <1>3, <2>1 DEF StoredObject
  <2> HIDE DEF x
  <2>6. stored[p] = x /\ \A r \in Paths \ {p} : stored[r] = remote[r] BY <1>1, <2>5 DEF Buckets
  <2>7. hc \in HeadCaches /\ hc[p] = NULL /\ \A r \in Paths \ {p} : hc[r] = headCache[r]
    BY <1>1, <2>1 DEF HeadCaches
  <2>8. HeadGives(v, p, stored, hc, heap) BY <2>2, <2>7, HeadObjectGives
  <2> DEFINE n == [stamp |-> stored[p].stamp, sized |-> stored[p].data # 0]
  <2>9. v.cache = [hc EXCEPT ![p] = NewEntry] /\ v.heap = With(heap, NewEntry, n)
    <3>1. ~May("head") BY DEF Calm, May
    <3> QED BY <2>4, <2>6, <2>7, <2>8, <3>1, NullIsNoObject DEF HeadGives
  <2>10. n.stamp = heap[e].stamp /\ n.sized = (truth[p] # 0) BY <2>4, <2>6
  <2> HIDE DEF n
  <2>11. v.cache[p] = NewEntry /\ \A r \in Paths \ {p} : v.cache[r] = headCache[r]
    BY <2>7, <2>9 DEF HeadCaches
  <2>12. v.heap[NewEntry] = n BY <2>9 DEF With
  <2>13. Sent(u, h, p) BY <1>4, <2>3, <2>4, <2>6, <2>10, <2>11, <2>12 DEF Sent
  <2>14. /\ \A y \in LiveFiles \ {f} : u.file[y] = o.file[y]
         /\ u.file[f].stamp = o.file[f].stamp /\ ~u.file[f].pending /\ u.file[f].data \in {0, o.file[f].data}
    <3>1. s \in {0, 2}
      <4>1. s \in 0 .. 2 /\ s # 1 BY <1>1 DEF World, Calm
      <4> QED BY <4>1
    <3>2. CASE s = 0 BY <1>8, <2>3, <3>2 DEF AfterUpload
    <3>3. CASE s = 2
      <4>1. u.file = [o.file EXCEPT ![f].data = 0] BY <2>3, <3>3 DEF AfterUpload
      <4>2. u.file = [o.file EXCEPT ![f] = [o.file[f] EXCEPT !.data = 0]] BY <4>1
      <4>3. o.file[f] \in File BY <1>4, <1>8 DEF DiskOK
      <4>4. u.file[f] = [o.file[f] EXCEPT !.data = 0] /\ \A y \in LiveFiles \ {f} : u.file[y] = o.file[y]
        BY <1>4, <1>8, <4>2 DEF DiskOK
      <4> QED BY <1>8, <4>3, <4>4 DEF File
    <3> QED BY <3>1, <3>2, <3>3
  <2>15. \A r \in Paths \ {p} : u.remote[r] = remote[r] /\ u.cache[r] = headCache[r]
    BY <2>3, <2>6, <2>11
  <2> QED BY <1>6, <1>8, <1>10, <2>13, <2>14, <2>15 DEF Left
<1> QED BY <1>9, <1>10

(* A file that is to be deleted is not sent.                               *)
LEMMA UploadDoomed ==
  ASSUME TypeOK, NEW c \in Contexts, InUse(c), ctx[c].handle # NULL, file[ctx[c].handle].pending,
         NEW u \in UploadWhenClosing(c)
  PROVE  u = NotUploaded(file)
<1>1. PICK o \in SyncContent(c) : u \in IF o.ok THEN PutObject(c, o.file) ELSE {NotUploaded(o.file)}
  BY DEF UploadWhenClosing
<1>2. ~Reachable(ctx[c].handle) BY DEF Reachable
<1>3. heap[ctx[c].entry].sized \in BOOLEAN
  <2>1. ctx[c].entry \in LiveEntries BY Pointed, NullIsNoObject DEF EntriesIn, TypeOK
  <2>2. HeapOK(heap) /\ DOMAIN heap = LiveEntries BY TypesApart
  <2> QED BY <2>1, <2>2 DEF HeapOK, Entry
<1>4. o.file = file BY <1>2, <1>3, SyncContentGives
<1>5. PutObject(c, o.file) = {NotUploaded(file)} BY <1>2, <1>4 DEF PutObject
<1> QED BY <1>1, <1>4, <1>5


(* c is closed with the outcome u, its handle being f.                     *)
ClosedWith(c, p, u, k) ==
  /\ u \in IF ctx[c].handle # NULL /\ ctx[c].modify THEN UploadWhenClosing(c) ELSE {NotUploaded(file)}
  /\ remote' = u.remote /\ headCache' = u.cache /\ Heap(u.heap)
  /\ k = IF ctx[c].handle = NULL THEN [at |-> cacheAt, file |-> u.file] ELSE CloseHandle(c, cacheAt, u.file)
  /\ cacheAt' = k.at /\ Disk(k.file)
  /\ mOpen' = Release(mOpen, p) /\ UNCHANGED <<deleting, truth, clock>>
  /\ c \in Users(p) /\ Users(p)' = Users(p) \ {c} /\ ~IsOpen(c)
  /\ ctx'[c].path = NULL /\ \A d \in Contexts \ {c} : ctx'[d] = ctx[d] /\ (IsOpen(d)' <=> IsOpen(d))
  /\ \A r \in Paths \ {p} : mOpen'[r] = mOpen[r]
  /\ mOpen'[p].entry \in {NULL, mOpen[p].entry}
  /\ mOpen'[p].ref = IF mOpen[p].ref <= 1 THEN 0 ELSE mOpen[p].ref - 1

LEMMA CloseGives ==
  ASSUME TypeOK, NEW c \in Contexts, Close(c), NEW p, p = ctx[c].path
  PROVE  p \in Paths /\ \E u, k : ClosedWith(c, p, u, k)
<1>1. /\ ctx'[c] = NoContext /\ ~InUse(c)' /\ \A d \in Contexts \ {c} : ctx'[d] = ctx[d]
      /\ mOpen' = Release(mOpen, p) /\ InUse(c) /\ ~IsOpen(c) /\ p \in Paths /\ UNCHANGED <<deleting, truth, clock>>
  BY CloseKeeps
<1>2. c \in Users(p) /\ Users(p)' = Users(p) \ {c} BY <1>1, UsersClosed
<1>3. PICK u \in IF ctx[c].handle # NULL /\ ctx[c].modify THEN UploadWhenClosing(c) ELSE {NotUploaded(file)} :
       LET disk == IF ctx[c].handle = NULL THEN [at |-> cacheAt, file |-> u.file]
                   ELSE CloseHandle(c, cacheAt, u.file)
       IN /\ remote' = u.remote /\ headCache' = u.cache
          /\ cacheAt' = disk.at /\ Disk(disk.file) /\ Heap(u.heap)
  BY DEF Close
<1>4. PICK k : k = IF ctx[c].handle = NULL THEN [at |-> cacheAt, file |-> u.file] ELSE CloseHandle(c, cacheAt, u.file)
  OBVIOUS
<1>5. /\ \A r \in Paths \ {p} : mOpen'[r] = mOpen[r]
      /\ mOpen'[p].entry \in {NULL, mOpen[p].entry}
      /\ mOpen'[p].ref = IF mOpen[p].ref <= 1 THEN 0 ELSE mOpen[p].ref - 1
  <2>1. mOpen \in Tables BY TypesApart
  <2>2. /\ \A q \in Paths \ {p} : Release(mOpen, p)[q] = mOpen[q]
        /\ Release(mOpen, p)[p].ref = IF mOpen[p].ref <= 1 THEN 0 ELSE mOpen[p].ref - 1
        /\ mOpen[p].ref > 1 => Release(mOpen, p)[p].entry = mOpen[p].entry
        /\ mOpen[p].ref <= 1 => Release(mOpen, p)[p] = Unregistered
    BY <1>1, <2>1, ReleaseGives
  <2>3. mOpen[p].ref \in Nat BY <1>1, Types DEF Typed
  <2> QED BY <1>1, <2>2, <2>3 DEF Unregistered
<1>6. ctx'[c].path = NULL /\ \A d \in Contexts \ {c} : IsOpen(d)' <=> IsOpen(d)
  BY <1>1 DEF NoContext, IsOpen
<1>7. remote' = u.remote /\ headCache' = u.cache /\ Heap(u.heap) /\ cacheAt' = k.at /\ Disk(k.file)
  BY <1>3, <1>4
<1>8. ClosedWith(c, p, u, k) BY <1>1, <1>2, <1>3, <1>4, <1>5, <1>6, <1>7 DEF ClosedWith
<1> QED BY <1>1, <1>8

(* The path of a closed context that had counted all.                      *)
LEMMA CountedLess ==
  ASSUME TypeOK, TypeOK', NEW p \in Paths, Counted(p), NEW c \in Contexts, NEW u, NEW k, ClosedWith(c, p, u, k)
  PROVE  /\ mOpen'[p].ref = Cardinality(Users(p)')
         /\ Users(p)' = {} <=> mOpen'[p] = Unregistered
         /\ Users(p)' # {} => Counted(p)' /\ mOpen'[p].entry = mOpen[p].entry
<1>1. c \in Users(p) /\ Users(p)' = Users(p) \ {c} BY DEF ClosedWith
<1>2. Cardinality(Users(p)') = Cardinality(Users(p)) - 1 /\ Cardinality(Users(p)) > 0 BY <1>1, LessUsers
<1>3. mOpen'[p].ref = Cardinality(Users(p)') BY <1>2, UserCount DEF Counted, ClosedWith
<1>4. Typed(p)' BY TypesThen
<1>5. Users(p)' = {} <=> Cardinality(Users(p)') = 0 BY UserCount, FS_EmptySet
<1>6. Users(p)' = {} <=> mOpen'[p] = Unregistered BY <1>3, <1>4, <1>5 DEF Typed
<1>7. ASSUME Users(p)' # {} PROVE Counted(p)' /\ mOpen'[p].entry = mOpen[p].entry
  <2>1. mOpen'[p].entry = mOpen[p].entry BY <1>4, <1>6, <1>7 DEF Typed, ClosedWith
  <2>2. \A d \in Users(p)' : d \in Users(p) /\ ctx'[d] = ctx[d] /\ (IsOpen(d)' <=> IsOpen(d))
    BY <1>1 DEF ClosedWith, Users
  <2>3. \A d \in Users(p)' : ctx'[d].handle # NULL /\ ctx'[d].entry = mOpen'[p].entry
    BY <2>1, <2>2 DEF Counted
  <2>4. \A d \in Users(p)' : ctx'[d].deleteOnClose => IsOpen(d)' /\ \A x \in Users(p)' \ {d} : ~IsOpen(x)'
    BY <2>2 DEF Counted
  <2> QED BY <1>3, <2>1, <2>3, <2>4 DEF Counted
<1> QED BY <1>3, <1>6, <1>7


LEMMA CloseLiveFits ==
  ASSUME TypeOK, TypeOK', Calm, Apart, NEW h \in Contents, \A r \in Paths : PathOK(h, r),
         NEW c \in Contexts, NEW p \in Paths, NEW u, NEW k, ClosedWith(c, p, u, k), Live(h, p)
  PROVE  Fit'
<1>1. /\ clock \in Nat /\ Typed(p) /\ Typed(p)' /\ PathOK(h, p) /\ DOMAIN file = LiveFiles /\ DiskOK(file)
      /\ cacheAt \in [Paths -> Files \cup {NULL}] /\ UsersOK(p) /\ Counted(p) /\ c \in Users(p)
      /\ ctx[c].deleteOnClose \in BOOLEAN
  BY Types, TypesThen, TypesApart DEF PathOK, Live, ClosedWith, UserTyped, Users
<1>2. PICK f, e : f = cacheAt[p] /\ e = mOpen[p].entry OBVIOUS
<1>3. /\ f # NULL /\ e # NULL /\ ctx[c].handle = f /\ f \in LiveFiles /\ e \in LiveEntries
      /\ file[f].stamp \in Nat /\ file[f].stamp <= clock /\ heap[e].stamp <= clock /\ truth[p] \in Nat
      /\ file[f].stamp = heap[e].stamp /\ heap[e].sized = (truth[p] # 0) /\ h[heap[e].stamp] = truth[p]
      /\ file[f].data = 0 /\ truth[p] # 0 => Matches(p)
      /\ file[f].data \in {0, truth[p]} /\ file[f].pending = FALSE
  BY <1>1, <1>2, LiveHas DEF Live, Typed, PathOK, FileOK, EntryOK
<1>4. Left(u, h, p, f) /\ (ctx[c].modify => Matches(p) \/ Sent(u, h, p))
  <2>1. CASE ctx[c].modify
    <3>1. u \in UploadWhenClosing(c) BY <1>3, <2>1 DEF ClosedWith
    <3> QED BY <1>1, <1>2, <3>1, UploadLive
  <2>2. CASE ~ctx[c].modify
    <3>1. u = NotUploaded(file) BY <2>2 DEF ClosedWith
    <3>2. u.remote = remote /\ u.cache = headCache /\ u.heap = heap /\ u.file = file BY <3>1 DEF NotUploaded
    <3>3. Uploaded(u)
      <4>1. EntriesIn(mOpen, headCache, ctx, LiveEntries) BY Pointed
      <4>2. remote \in Buckets /\ headCache \in HeadCaches /\ HeapOK(heap) /\ DOMAIN heap = LiveEntries BY TypesApart
      <4> QED BY <1>1, <3>2, <4>1, <4>2 DEF Uploaded, EntriesIn
    <3> QED BY <1>3, <2>2, <3>2, <3>3 DEF Left, Unsent
  <2> QED BY <2>1, <2>2
<1>5. /\ cacheAt' = cacheAt /\ DOMAIN u.file = LiveFiles
      /\ k.file[f].data = u.file[f].data /\ k.file[f].stamp = u.file[f].stamp /\ k.file[f].pending = FALSE
      /\ \A x \in LiveFiles \ {f} : k.file[x] = u.file[x]
  <2>1. DiskOK(u.file) /\ DOMAIN u.file = LiveFiles /\ ~u.file[f].pending BY <1>4 DEF Left, Uploaded
  <2>2. Goes(c, u.file) = FALSE
    <3>1. ctx[c].deleteOnClose = FALSE BY <1>1 DEF Counted, ClosedWith
    <3>2. u.file[f].pending = FALSE BY <1>3, <2>1 DEF DiskOK, File
    <3> QED BY <1>3, <3>1, <3>2 DEF Goes
  <2>3. k = CloseHandle(c, cacheAt, u.file) BY <1>3 DEF ClosedWith
  <2>4. f = ctx[c].handle /\ f \in DOMAIN u.file BY <1>3, <2>1
  <2>5. PICK fs : fs = u.file OBVIOUS
  <2>6. /\ k.file[f].pending = Goes(c, fs) /\ k.file[f].data = fs[f].data /\ k.file[f].stamp = fs[f].stamp
        /\ \A x \in DOMAIN fs \ {f} : k.file[x] = fs[x]
        /\ ~(Goes(c, fs) /\ LastHandle(c)) => k.at = cacheAt
    BY <1>1, <2>1, <2>3, <2>4, <2>5, ClosedGives
  <2> QED BY <2>1, <2>2, <2>5, <2>6 DEF ClosedWith
<1>6. /\ \A x \in LiveFiles' : file'[x] = k.file[x]
      /\ \A x \in LiveEntries' : heap'[x] = u.heap[x]
      /\ \A x \in LiveEntries : u.heap[x] = heap[x]
  BY <1>4, DiskIs, HeapIs DEF ClosedWith, Left, Uploaded
<1>7. /\ \A r \in Paths \ {p} : remote'[r] = remote[r] /\ headCache'[r] = headCache[r]
      /\ Unsent(u) \/ Sent(u, h, p)
      /\ remote' = u.remote /\ headCache' = u.cache
      /\ UNCHANGED <<deleting, truth, clock>>
  BY <1>4 DEF ClosedWith, Left
<1>8. /\ f \in LiveFiles' /\ file'[f].stamp = file[f].stamp /\ file'[f].pending = FALSE
      /\ file'[f].data \in {0, truth[p]} /\ file'[f].data = u.file[f].data
  <2>1. f \in LiveFiles' BY <1>1, <1>2, <1>3, <1>5 DEF Typed
  <2> QED BY <1>4, <1>5, <1>6, <2>1 DEF Left
<1>9. Matches(p) => Matches(p)' BY <1>7 DEF Unsent, Sent, Matches
<1>10. ctx[c].modify => Matches(p)' BY <1>4, <1>7, <1>9 DEF Sent, Matches
<1>11. file'[f].data = 0 /\ truth[p] # 0 => Matches(p)'
  BY <1>3, <1>4, <1>7, <1>8, <1>9 DEF Left, Sent, Matches
<1>12. Matches(p)' \/ \E d \in Users(p)' : ctx'[d].modify
  <2>1. CASE Matches(p) BY <1>9, <2>1
  <2>2. CASE ~Matches(p)
    <3>1. PICK d \in Users(p) : ctx[d].modify BY <2>2 DEF Live
    <3>2. CASE d = c BY <1>10, <3>1, <3>2
    <3>3. CASE d # c BY <3>1, <3>3 DEF ClosedWith, Users
    <3> QED BY <3>2, <3>3
  <2> QED BY <2>1, <2>2
<1>13. /\ Users(p)' = {} <=> mOpen'[p] = Unregistered
       /\ Users(p)' # {} => Counted(p)' /\ mOpen'[p].entry = mOpen[p].entry
  BY <1>1, CountedLess
<1>14. OnlyAt({p})
  <2>1. \A x \in LiveFiles \cap LiveFiles' : cacheAt[p] # x => file'[x] = file[x]
    BY <1>2, <1>4, <1>5, <1>6 DEF Left
  <2>2. \A d \in Contexts : ctx'[d] = ctx[d] \/ (ctx[d].path = p /\ ctx'[d].path = NULL)
    BY DEF ClosedWith, Users
  <2> QED BY <1>1, <1>5, <1>6, <1>7, <2>1, <2>2 DEF OnlyAt, ClosedWith
<1>15. Apart'
  <2>1. mOpen'[p].entry # ABSENT /\ mOpen'[p].entry \in {NULL, mOpen[p].entry}
    BY <1>2, <1>3, EntryLeft, NullIsNoObject DEF ClosedWith
  <2>2. headCache'[p] \in {headCache[p], NewEntry} BY <1>7 DEF Unsent, Sent
  <2> QED BY <1>5, <1>7, <2>1, <2>2, ApartStays DEF ClosedWith
<1>16. RemoteOK(h, p)' BY <1>1, <1>7 DEF PathOK, RemoteOK, Unsent, Sent
<1>17. FileOK(h, p)' BY <1>2, <1>3, <1>5, <1>7, <1>8 DEF FileOK
<1>18. mOpen'[p].entry # NULL => mOpen'[p].entry = e /\ heap'[e] = heap[e]
  BY <1>1, <1>2, <1>3, <1>6 DEF ClosedWith, Typed
<1>19. EntryOK(p)' BY <1>3, <1>7, <1>18 DEF EntryOK
<1>20. HeadOK(h, p)'
  <2>1. CASE Sent(u, h, p)
    <3>1. NewEntry \in Entries /\ NewEntry # ABSENT BY EntryLeft, NullIsNoObject
    <3>2. headCache'[p] = NewEntry BY <1>7, <2>1 DEF Sent
    <3>3. heap'[NewEntry] = u.heap[NewEntry] BY <1>1, <1>6, <3>1, <3>2 DEF Typed
    <3> QED BY <1>7, <2>1, <3>1, <3>2, <3>3 DEF HeadOK, Sent
  <2>2. CASE Unsent(u)
    <3>1. remote' = remote /\ headCache' = headCache BY <1>7, <2>2 DEF Unsent
    <3>2. headCache[p] \in Entries => heap'[headCache[p]] = heap[headCache[p]]
      BY <1>1, <1>6, <3>1 DEF Typed
    <3>3. CASE headCache[p] \in Entries /\ headCache[p] = e
      <4>1. mOpen'[p].entry # e => Matches(p)
        <5> SUFFICES ASSUME mOpen'[p].entry # e PROVE Matches(p) OBVIOUS
        <5>1. Users(p)' = {} BY <1>2, <1>13
        <5>2. Matches(p)' BY <1>12, <5>1
        <5> QED BY <1>7, <3>1, <5>2 DEF Matches
      <4>2. mOpen'[p].entry # e => heap[e].sized = (remote[p].data # 0) /\ h[heap[e].stamp] = remote[p].data
        BY <1>3, <4>1 DEF Matches
      <4> QED BY <1>1, <1>2, <1>7, <3>1, <3>2, <3>3, <4>2 DEF PathOK, HeadOK
    <3>4. CASE ~(headCache[p] \in Entries /\ headCache[p] = e)
      BY <1>1, <1>2, <1>7, <3>1, <3>2, <3>4 DEF PathOK, HeadOK
    <3> QED BY <3>3, <3>4
  <2> QED BY <1>7, <2>1, <2>2
<1>21. UsersOK(p)' BY <1>1, <1>5 DEF UsersOK, ClosedWith, Users
<1>22. CASE Users(p)' = {}
  <2>1. Idle(p)' BY <1>3, <1>7, <1>12, <1>13, <1>22, NullIsNoObject DEF Live, Idle
  <2>2. PathOK(h, p)' BY <1>16, <1>17, <1>19, <1>20, <1>21, <2>1 DEF PathOK
  <2>3. Agree(h, h) BY DEF Agree
  <2> QED BY <1>14, <1>15, <2>2, <2>3, StepFits
<1>23. CASE Users(p)' # {}
  <2>1. Live(h, p)'
    <3>1. Counted(p)' /\ mOpen'[p].entry = e /\ heap'[e] = heap[e] BY <1>2, <1>3, <1>13, <1>18, <1>23
    <3>2. p \notin deleting' /\ truth'[p] = truth[p] /\ truth[p] # NULL BY <1>3, <1>7, NullIsNoObject DEF Live
    <3> QED BY <1>2, <1>3, <1>5, <1>8, <1>11, <1>12, <1>23, <3>1, <3>2 DEF Live
  <2>2. PathOK(h, p)' BY <1>16, <1>17, <1>19, <1>20, <1>21, <2>1 DEF PathOK
  <2>3. Agree(h, h) BY DEF Agree
  <2> QED BY <1>14, <1>15, <2>2, <2>3, StepFits
<1> QED BY <1>22, <1>23


(* Closing a handle of a deleted file stores nothing and leaves nothing.   *)
LEMMA CloseDeletedFits ==
  ASSUME TypeOK, TypeOK', NoEntryLeak', Apart, NEW h \in Contents, \A r \in Paths : PathOK(h, r),
         NEW c \in Contexts, NEW p \in Paths, NEW u, NEW k, ClosedWith(c, p, u, k), Condemned(p) \/ Dead(p)
  PROVE  Fit'
<1>1. /\ clock \in Nat /\ Typed(p) /\ Typed(p)' /\ PathOK(h, p) /\ DOMAIN file = LiveFiles /\ DiskOK(file)
      /\ cacheAt \in [Paths -> Files \cup {NULL}] /\ UsersOK(p) /\ c \in Users(p) /\ c \in Contexts
      /\ ctx[c].deleteOnClose \in BOOLEAN /\ InUse(c) /\ Gone(p) /\ ~IsOpen(c)
  BY Types, TypesThen, TypesApart DEF PathOK, ClosedWith, UserTyped, Users, Condemned, Dead
<1>2. PICK f : f = ctx[c].handle OBVIOUS
<1>3. f # NULL => f = cacheAt[p] /\ f \in LiveFiles /\ file[f].pending = TRUE
  <2>1. f # NULL => f = cacheAt[p] /\ f \in LiveFiles BY <1>1, <1>2, Types DEF UsersOK, UserTyped
  <2>2. f # NULL => file[f].pending BY <1>1, <1>2, <2>1 DEF Condemned, Dead
  <2> QED BY <1>1, <2>1, <2>2 DEF Typed
<1>4. u.remote = remote /\ u.cache = headCache /\ u.heap = heap /\ u.file = file
  <2>1. u = NotUploaded(file)
    <3>1. CASE ctx[c].handle # NULL /\ ctx[c].modify
      BY <1>1, <1>2, <1>3, <3>1, UploadDoomed DEF ClosedWith
    <3>2. CASE ~(ctx[c].handle # NULL /\ ctx[c].modify) BY <3>2 DEF ClosedWith
    <3> QED BY <3>1, <3>2
  <2> QED BY <2>1 DEF NotUploaded
<1>5. /\ \A x \in LiveFiles : /\ k.file[x].data = file[x].data /\ k.file[x].stamp = file[x].stamp
                              /\ k.file[x].pending = file[x].pending
                              /\ x # f => k.file[x] = file[x]
      /\ f # NULL /\ LastHandle(c) => \A r \in Paths : k.at[r] = IF cacheAt[r] = f THEN NULL ELSE cacheAt[r]
      /\ ~(f # NULL /\ LastHandle(c)) => k.at = cacheAt
  <2>1. CASE f = NULL
    <3>1. k.at = cacheAt /\ k.file = file BY <1>2, <1>4, <2>1 DEF ClosedWith
    <3> QED BY <2>1, <3>1
  <2>2. CASE f # NULL
    <3>1. k = CloseHandle(c, cacheAt, file) /\ f \in DOMAIN file BY <1>1, <1>2, <1>3, <1>4, <2>2 DEF ClosedWith
    <3>2. Goes(c, file) BY <1>2, <1>3, <2>2 DEF Goes
    <3>3. /\ k.file[f].pending = Goes(c, file) /\ k.file[f].data = file[f].data /\ k.file[f].stamp = file[f].stamp
          /\ \A x \in DOMAIN file \ {f} : k.file[x] = file[x]
          /\ Goes(c, file) /\ LastHandle(c) => \A r \in Paths : k.at[r] = IF cacheAt[r] = f THEN NULL ELSE cacheAt[r]
          /\ ~(Goes(c, file) /\ LastHandle(c)) => k.at = cacheAt
      BY <1>1, <1>2, <3>1, ClosedGives
    <3>4. k.file[f].pending = file[f].pending
      <4>1. Goes(c, file) = TRUE BY <1>2, <1>3, <2>2 DEF Goes
      <4> QED BY <1>3, <2>2, <3>3, <4>1
    <3> QED BY <1>1, <1>3, <2>2, <3>2, <3>3, <3>4
  <2> QED BY <2>1, <2>2
<1>6. /\ cacheAt'[p] = IF f # NULL /\ LastHandle(c) THEN NULL ELSE cacheAt[p]
      /\ \A r \in Paths \ {p} : cacheAt'[r] = cacheAt[r]
  <2>1. cacheAt' = k.at BY DEF ClosedWith
  <2>2. f # NULL => \A r \in Paths \ {p} : cacheAt[r] # f BY <1>3 DEF Apart
  <2> QED BY <1>3, <1>5, <2>1, <2>2
<1>7. /\ \A x \in LiveFiles' : file'[x] = k.file[x]
      /\ \A x \in LiveEntries' : heap'[x] = heap[x]
      /\ UNCHANGED <<remote, headCache, deleting, truth, clock>>
  BY <1>4, DiskIs, HeapIs DEF ClosedWith
<1>8. \A d \in Users(p)' : d \in Users(p) /\ d # c /\ d \in Contexts /\ ctx'[d] = ctx[d] /\ (IsOpen(d)' <=> IsOpen(d))
  BY DEF ClosedWith, Users
<1>9. \A d \in Users(p)' : ctx'[d].handle # NULL => ctx'[d].handle = cacheAt'[p] /\ ctx'[d].name = p
  BY <1>1, <1>2, <1>3, <1>6, <1>8 DEF UsersOK, LastHandle
<1>10. OnlyAt({p})
  <2>1. \A x \in LiveFiles \cap LiveFiles' : cacheAt[p] # x => file'[x] = file[x]
    <3> SUFFICES ASSUME NEW x \in LiveFiles \cap LiveFiles', cacheAt[p] # x PROVE file'[x] = file[x] OBVIOUS
    <3>1. x # NULL BY FileLeft, NullIsNoObject
    <3> QED BY <1>3, <1>5, <1>7, <3>1
  <2>2. \A d \in Contexts : ctx'[d] = ctx[d] \/ (ctx[d].path = p /\ ctx'[d].path = NULL)
    BY DEF ClosedWith, Users
  <2> QED BY <1>1, <1>6, <1>7, <2>1, <2>2 DEF OnlyAt, ClosedWith
<1>11. Apart'
  <2>1. mOpen'[p].entry # ABSENT /\ mOpen'[p].entry \in {NULL, mOpen[p].entry}
    BY <1>1, EntryLeft, NullIsNoObject DEF ClosedWith, Typed
  <2> QED BY <1>6, <1>7, <2>1, ApartStays DEF ClosedWith
<1>12. RemoteOK(h, p)' BY <1>1, <1>7 DEF PathOK, RemoteOK
<1>13. cacheAt'[p] # NULL =>
         /\ cacheAt'[p] = cacheAt[p] /\ cacheAt[p] \in LiveFiles
         /\ file'[cacheAt'[p]].data = file[cacheAt[p]].data /\ file'[cacheAt'[p]].stamp = file[cacheAt[p]].stamp
         /\ file'[cacheAt'[p]].pending = file[cacheAt[p]].pending
  BY <1>1, <1>5, <1>6, <1>7 DEF Typed
<1>14. FileOK(h, p)'
  <2> SUFFICES ASSUME cacheAt'[p] # NULL, file[cacheAt[p]].pending PROVE \E d \in Users(p)' : ctx'[d].handle # NULL
    BY <1>1, <1>7, <1>13 DEF PathOK, FileOK
  <2>1. PICK d \in Users(p) : ctx[d].handle # NULL BY <1>1, <1>13 DEF PathOK, FileOK
  <2>2. CASE d # c BY <1>8, <2>1, <2>2 DEF ClosedWith, Users
  <2>3. CASE d = c
    <3>1. f # NULL /\ ~LastHandle(c) /\ f = cacheAt[p] BY <1>2, <1>3, <1>6, <2>1, <2>3
    <3>2. PICK x \in Contexts \ {c} : ctx[x].handle = f BY <1>2, <3>1 DEF LastHandle
    <3>3. x \in Users(p) BY <3>1, <3>2, HolderUses
    <3> QED BY <1>8, <3>1, <3>2, <3>3 DEF ClosedWith
  <2> QED BY <2>2, <2>3
<1>15. EntryOK(p)'
  <2>1. mOpen'[p].entry # NULL => mOpen'[p].entry = mOpen[p].entry /\ mOpen'[p].entry \in LiveEntries'
    BY <1>1 DEF ClosedWith, Typed
  <2> QED BY <1>1, <1>7, <2>1 DEF PathOK, EntryOK
<1>16. HeadOK(h, p)' BY <1>1, <1>7, NullIsNoObject DEF Gone, HeadOK
<1>17. UsersOK(p)' BY <1>1, <1>8, <1>9 DEF UsersOK
<1>18. Gone(p)' BY <1>1, <1>7 DEF Gone
<1>19. Agree(h, h) BY DEF Agree
<1>20. CASE Condemned(p)
  <2>1. PICK d \in Users(p) : IsOpen(d) BY <1>20 DEF Condemned
  <2>2. d # c /\ d \in Users(p)' /\ IsOpen(d)' /\ ctx[d].handle # NULL /\ d \in Contexts
    BY <1>1, <1>20, <2>1 DEF ClosedWith, Users, Condemned, Counted
  <2>3. Counted(p)' BY <1>20, <2>2, CountedLess DEF Condemned
  <2>4. cacheAt'[p] # NULL BY <1>9, <2>2 DEF ClosedWith
  <2>5. file'[cacheAt'[p]].pending BY <1>13, <1>20, <2>4 DEF Condemned
  <2>6. Condemned(p)' BY <1>7, <1>18, <1>20, <2>2, <2>3, <2>5 DEF Condemned
  <2>7. PathOK(h, p)' BY <1>12, <1>14, <1>15, <1>16, <1>17, <2>6 DEF PathOK
  <2> QED BY <1>10, <1>11, <1>19, <2>7, StepFits
<1>21. CASE Dead(p) /\ Users(p)' = {}
  <2>1. mOpen'[p].ref <= 0 BY <1>21, LeakIsUsers, FS_EmptySet
  <2>2. mOpen'[p] = Unregistered BY <1>1, <2>1 DEF Typed
  <2>3. Idle(p)' BY <1>7, <1>18, <1>21, <2>2 DEF Idle, Gone, Dead
  <2>4. PathOK(h, p)' BY <1>12, <1>14, <1>15, <1>16, <1>17, <2>3 DEF PathOK
  <2> QED BY <1>10, <1>11, <1>19, <2>4, StepFits
<1>22. CASE Dead(p) /\ Users(p)' # {}
  <2>1. ASSUME NEW d \in Users(p)'
        PROVE  ~IsOpen(d)' /\ (ctx'[d].handle # NULL => file'[ctx'[d].handle].pending /\ ~ctx'[d].deleteOnClose)
    <3>1. d \in Users(p) /\ ctx'[d] = ctx[d] /\ (IsOpen(d)' <=> IsOpen(d)) BY <1>8
    <3>2. ctx'[d].handle # NULL => ctx'[d].handle = cacheAt[p] /\ ctx'[d].handle = cacheAt'[p]
      BY <1>1, <1>9, <3>1 DEF UsersOK
    <3> QED BY <1>13, <1>22, <3>1, <3>2 DEF Dead
  <2>2. Dead(p)' BY <1>7, <1>18, <1>22, <2>1 DEF Dead
  <2>3. PathOK(h, p)' BY <1>12, <1>14, <1>15, <1>16, <1>17, <2>2 DEF PathOK
  <2> QED BY <1>10, <1>11, <1>19, <2>3, StepFits
<1> QED BY <1>20, <1>21, <1>22

LEMMA CloseFits ==
  ASSUME TypeOK, TypeOK', NoEntryLeak', Calm, Apart, NEW h \in Contents, \A r \in Paths : PathOK(h, r),
         NEW c \in Contexts, Close(c)
  PROVE  Fit'
<1>1. PICK p, u, k : p = ctx[c].path /\ p \in Paths /\ ClosedWith(c, p, u, k) BY CloseGives
<1>2. Live(h, p) \/ Condemned(p) \/ Dead(p) BY <1>1 DEF PathOK, Idle, ClosedWith
<1> QED BY <1>1, <1>2, CloseLiveFits, CloseDeletedFits


(* Of a file that has one handle only no other handle has the name.        *)
LEMMA NamedAlone ==
  ASSUME TypeOK, NEW h, \A r \in Paths : PathOK(h, r), NEW p \in Paths,
         NEW d \in Contexts, InUse(d) => ctx[d].path # p
  PROVE  ~(IsOpen(d) /\ ctx[d].name = p)
<1> SUFFICES ASSUME IsOpen(d), ctx[d].name = p PROVE FALSE OBVIOUS
<1>1. PICK r \in Paths : r = ctx[d].path BY Types DEF UserTyped
<1>2. PathOK(h, r) OBVIOUS
<1>3. ctx[d].name = r BY <1>1, <1>2, OpenHas
<1>4. InUse(d) BY Types DEF UserTyped
<1> QED BY <1>1, <1>3, <1>4

(* The contexts after a rename of a file that has one handle only.         *)
LEMMA RenamedAlone ==
  ASSUME TypeOK, NEW h, \A r \in Paths : PathOK(h, r), NEW c \in Contexts, IsOpen(c), NEW p \in Paths, p = ctx[c].path,
         ctx[c].name = p, \A d \in Contexts \ {c} : InUse(d) => ctx[d].path # p, NEW q \in Paths,
         ctx' = [d \in Contexts |->
                   IF d = c
                   THEN [ctx[d] EXCEPT !.path = q, !.name = q, !.entry = NewEntry]
                   ELSE IF IsOpen(d) /\ ctx[d].name = ctx[c].name
                        THEN [ctx[d] EXCEPT !.name = q] ELSE ctx[d]]
  PROVE  \A d \in Contexts \ {c} : ctx'[d] = ctx[d]
<1>1. \A d \in Contexts \ {c} : ~(IsOpen(d) /\ ctx[d].name = p) BY NamedAlone
<1> QED BY <1>1

LEMMA RenameFits ==
  ASSUME TypeOK, TypeOK', Calm, Apart, NEW h \in Contents, \A r \in Paths : PathOK(h, r),
         NEW c \in Contexts, NEW q \in Paths, Rename(c, q), q # ctx[c].path
  PROVE  Fit'
<1>1. IsOpen(c) /\ q \notin {ctx[c].path, ctx[c].name} /\ AdmitsRename(c, q) /\ UNCHANGED <<deleting, clock>>
  BY DEF Rename
<1>2. PICK p \in Paths : p = ctx[c].path BY <1>1, Types DEF UserTyped
<1>3. PICK o \in CanCreateObject(q) :
        IF o.entry # NULL \/ mOpen[ctx[c].path] = Unregistered
        THEN /\ headCache' = o.cache
             /\ UNCHANGED <<remote, cacheAt, file, mOpen, ctx, truth>>
             /\ Heap(o.heap)
        ELSE RenameReleased(c, q, o)
  BY DEF Rename
<1>4. CASE o.entry # NULL \/ mOpen[ctx[c].path] = Unregistered BY <1>1, <1>3, <1>4, RefusedFits
<1>5. CASE o.entry = NULL /\ mOpen[ctx[c].path] # Unregistered
  <2>0. RenameReleased(c, q, o) BY <1>3, <1>5
  <2>1. /\ clock \in Nat /\ Typed(p) /\ PathOK(h, p) /\ PathOK(h, q) /\ mOpen \in Tables
        /\ truth \in [Paths -> Nat \cup {NULL}] /\ remote \in Buckets /\ DOMAIN file = LiveFiles
        /\ ctx[c].deleteOnClose \in BOOLEAN /\ DOMAIN heap = LiveEntries /\ Typed(p)' /\ Typed(q)'
        /\ cacheAt \in [Paths -> Files \cup {NULL}] /\ q # p
    BY <1>1, <1>2, Types, TypesThen, TypesApart, CleanedIsOK
  <2>2. /\ c \in Users(p) /\ Counted(p) /\ UsersOK(p) /\ ctx[c].name = p
        /\ ctx[c].handle = cacheAt[p] /\ ctx[c].entry = mOpen[p].entry
        /\ cacheAt[p] # NULL /\ mOpen[p].entry # NULL /\ cacheAt[p] \in LiveFiles /\ mOpen[p].entry \in LiveEntries
        /\ Live(h, p) \/ Condemned(p)
    BY <1>1, <1>2, <2>1, OpenHas
  <2>3. Live(h, p) BY <1>1, <2>2 DEF AdmitsRename, Condemned
  <2>4. /\ \A d \in Contexts \ {c} : InUse(d) => ctx[d].path # p
        /\ remote[p] # NULL /\ Admits(q, ctx[c].deleteOnClose)
    BY <1>1, <1>2 DEF AdmitsRename, Calm, May
  <2>5. Users(p) = {c} BY <2>2, <2>4 DEF Users
  <2>6. /\ mOpen[q] = Unregistered /\ Idle(q) /\ remote[q] = NULL /\ Looked(o, q, headCache)
    BY <1>5, <2>1, <2>4, CreateIdle
  <2>7. PICK f, e : f = cacheAt[p] /\ e = mOpen[p].entry OBVIOUS
  <2>8. CanMove(f, q)
    <3>1. Reachable(f) BY <2>1, <2>3, <2>7 DEF Reachable, Live
    <3>2. cacheAt[q] # NULL => \A d \in Contexts : ctx[d].handle # cacheAt[q]
      BY <2>6, HolderUses DEF Idle
    <3> QED BY <3>1, <3>2 DEF CanMove
  <2>9. /\ remote' = [remote EXCEPT ![q] = remote[p], ![p] = NULL]
        /\ headCache' = [o.cache EXCEPT ![p] = NULL, ![q] = NULL]
        /\ cacheAt' = Moved(f, q)
        /\ ctx' = [d \in Contexts |->
                     IF d = c
                     THEN [ctx[d] EXCEPT !.path = q, !.name = q, !.entry = NewEntry]
                     ELSE IF IsOpen(d) /\ ctx[d].name = ctx[c].name
                          THEN [ctx[d] EXCEPT !.name = q] ELSE ctx[d]]
        /\ mOpen' = Register(Release(mOpen, p), q, NewEntry)
        /\ truth' = [truth EXCEPT ![q] = truth[p], ![p] = NULL]
        /\ Disk(file)
        /\ Heap(With(o.heap, NewEntry, heap[e]))
    <3>1. ~May("copy") /\ ~May("delete") BY DEF Calm, May
    <3>2. ctx[c].handle = f /\ ctx[c].entry = e /\ ctx[c].path = p /\ ctx[c].name = p BY <1>2, <2>2, <2>7
    <3>3. remote[ctx[c].path] # NULL /\ CanMove(ctx[c].handle, q) BY <1>2, <2>4, <2>8, <3>2
    <3>4. /\ remote' = [remote EXCEPT ![q] = remote[ctx[c].path], ![ctx[c].path] = NULL]
          /\ headCache' = [o.cache EXCEPT ![ctx[c].path] = NULL, ![q] = NULL]
          /\ cacheAt' = Moved(ctx[c].handle, q)
          /\ ctx' = [d \in Contexts |->
                       IF d = c
                       THEN [ctx[d] EXCEPT !.path = q, !.name = q, !.entry = NewEntry]
                       ELSE IF IsOpen(d) /\ ctx[d].name = ctx[c].name
                            THEN [ctx[d] EXCEPT !.name = q] ELSE ctx[d]]
          /\ mOpen' = Register(Release(mOpen, ctx[c].path), q, NewEntry)
          /\ truth' = [truth EXCEPT ![q] = truth[ctx[c].name], ![ctx[c].name] = NULL]
          /\ Disk(file)
          /\ Heap(With(o.heap, NewEntry, heap[ctx[c].entry]))
      BY <2>0, <3>1, <3>3 DEF RenameReleased
    <3> QED BY <3>2, <3>4
  <2>10. remote'[q] = remote[p] /\ remote'[p] = NULL /\ \A r \in Paths \ {p, q} : remote'[r] = remote[r]
    BY <2>1, <2>9 DEF Buckets
  <2>11. headCache'[p] = NULL /\ headCache'[q] = NULL /\ \A r \in Paths \ {p, q} : headCache'[r] = headCache[r]
    BY <2>6, <2>9 DEF Looked, HeadCaches
  <2>12. cacheAt'[p] = NULL /\ cacheAt'[q] = f /\ \A r \in Paths \ {p, q} : cacheAt'[r] = cacheAt[r] /\ cacheAt[r] # f
    <3>1. \A r \in Paths \ {p} : cacheAt[r] # f BY <2>2, <2>7 DEF Apart
    <3> QED BY <2>1, <2>7, <2>9, <3>1 DEF Moved
  <2>13. truth'[q] = truth[p] /\ truth'[p] = NULL /\ \A r \in Paths \ {p, q} : truth'[r] = truth[r]
    BY <2>1, <2>9
  <2>14. Renamed(c, q) BY <1>1, <2>9, RenameContexts
  <2>15. \A d \in Contexts \ {c} : ctx'[d] = ctx[d] BY <1>1, <1>2, <2>2, <2>4, <2>9, RenamedAlone
  <2>16. Users(p)' = {} /\ Users(q)' = {c}
    <3>1. Users(p)' = Users(p) \ {c} /\ Users(q)' = Users(q) \cup {c} BY <1>1, <1>2, <2>1, <2>14, UsersRenamed
    <3> QED BY <2>5, <2>6, <3>1 DEF Idle
  <2>17. mOpen'[p] = Unregistered /\ \A r \in Paths \ {p, q} : mOpen'[r] = mOpen[r]
    <3>0. Cardinality({c}) = 1 BY FS_Singleton
    <3>1. mOpen[p].ref = 1 BY <2>2, <2>5, <3>0 DEF Counted
    <3>2. Release(mOpen, p)[p] = Unregistered /\ \A r \in Paths \ {p} : Release(mOpen, p)[r] = mOpen[r]
      BY <2>1, <3>1, ReleaseGives
    <3>3. Release(mOpen, p) \in Tables BY <2>1, TableFits
    <3> QED BY <2>1, <2>9, <3>2, <3>3 DEF Register, Tables
  <2>18. mOpen'[q].entry = NewEntry /\ mOpen'[q].ref = 1
    <3>1. Release(mOpen, p) \in Tables BY <2>1, TableFits
    <3>2. mOpen'[q] = [entry |-> NewEntry, ref |-> 1] BY <2>9, <3>1 DEF Register, Tables
    <3> QED BY <3>2
  <2>19. NewEntry \in Entries /\ NewEntry \notin LiveEntries /\ NewEntry \notin {NULL, ABSENT} BY EntryLeft
  <2>20. /\ \A x \in LiveEntries \cap LiveEntries' : heap'[x] = heap[x]
         /\ heap'[NewEntry] = heap[e]
    <3> DEFINE hh == With(o.heap, NewEntry, heap[e])
    <3>1. hh[NewEntry] = heap[e] /\ \A x \in LiveEntries : hh[x] = o.heap[x]
      BY <2>6, <2>19 DEF With, Looked
    <3>2. Heap(hh) BY <2>9
    <3> HIDE DEF hh
    <3>3. \A x \in LiveEntries' : heap'[x] = hh[x] BY <3>2, HeapIs
    <3>4. NewEntry \in LiveEntries' BY <2>1, <2>18, <2>19 DEF Typed
    <3> QED BY <2>6, <3>1, <3>3, <3>4 DEF Looked
  <2>21. \A x \in LiveFiles' : file'[x] = file[x] BY <2>9, DiskIs
  <2>22. OnlyAt({p, q})
    <3>1. \A d \in Contexts : ctx'[d] = ctx[d] \/ (ctx[d].path = p /\ ctx'[d].path = q)
      BY <1>2, <2>14, <2>15 DEF Renamed
    <3> QED BY <1>1, <2>1, <2>10, <2>11, <2>12, <2>13, <2>17, <2>20, <2>21, <3>1 DEF OnlyAt
  <2>23. Apart'
    <3>0. \A r \in Paths : mOpen[r].entry # NewEntry /\ headCache[r] # NewEntry
      BY <2>19, Types DEF Typed
    <3>a. \A r \in Paths \ {p, q} : mOpen'[r] = mOpen[r] /\ headCache'[r] = headCache[r] /\ cacheAt'[r] = cacheAt[r]
      BY <2>11, <2>12, <2>17
    <3>b. NULL \notin Entries /\ mOpen'[p].entry = NULL BY <2>17, NullIsNoObject DEF Unregistered
    <3> SUFFICES ASSUME NEW r \in Paths, NEW s \in Paths
                 PROVE  /\ cacheAt'[r] # NULL /\ cacheAt'[r] = cacheAt'[s] => r = s
                        /\ mOpen'[r].entry # NULL /\ mOpen'[r].entry = mOpen'[s].entry => r = s
                        /\ headCache'[r] \in Entries /\ headCache'[r] \in {headCache'[s], mOpen'[s].entry} => r = s
      BY DEF Apart
    <3>1. cacheAt'[r] # NULL /\ cacheAt'[r] = cacheAt'[s] => r = s BY <2>12 DEF Apart
    <3>2. mOpen'[r].entry # NULL /\ mOpen'[r].entry = mOpen'[s].entry => r = s
      BY <2>18, <3>0, <3>a, <3>b DEF Apart
    <3>3. headCache'[r] \in Entries /\ headCache'[r] \in {headCache'[s], mOpen'[s].entry} => r = s
      <4> SUFFICES ASSUME headCache'[r] \in Entries, headCache'[r] \in {headCache'[s], mOpen'[s].entry} PROVE r = s
        OBVIOUS
      <4>1. r \notin {p, q} /\ headCache'[r] = headCache[r] BY <2>11, <3>b
      <4>2. s # p BY <2>11, <3>b
      <4>3. s # q BY <2>11, <2>18, <3>0, <3>b, <4>1
      <4> QED BY <3>a, <4>1, <4>2, <4>3 DEF Apart
    <3> QED BY <3>1, <3>2, <3>3
  <2>24. PathOK(h, p)'
    <3>1. RemoteOK(h, p)' /\ FileOK(h, p)' /\ EntryOK(p)' /\ HeadOK(h, p)' /\ UsersOK(p)'
      BY <2>10, <2>11, <2>12, <2>16, <2>17, NullIsNoObject DEF RemoteOK, FileOK, EntryOK, HeadOK, UsersOK, Unregistered
    <3>2. Idle(p)' BY <1>1, <2>3, <2>10, <2>13, <2>16, <2>17 DEF Idle, Live
    <3> QED BY <3>1, <3>2 DEF PathOK
  <2>25. /\ file'[f] = file[f] /\ f # NULL /\ f \in LiveFiles'
         /\ heap[e].stamp <= clock /\ file[f].pending = FALSE
    <3>1. f \in LiveFiles' BY <2>1, <2>2, <2>7, <2>12 DEF Typed
    <3>2. heap[e].stamp <= clock /\ file[f].pending = FALSE
      BY <2>1, <2>2, <2>3, <2>7 DEF PathOK, EntryOK, Live, Typed
    <3> QED BY <2>2, <2>7, <2>21, <3>1, <3>2
  <2>26. PathOK(h, q)'
    <3>1. RemoteOK(h, q)' BY <1>1, <2>1, <2>10 DEF PathOK, RemoteOK
    <3>2. FileOK(h, q)' BY <1>1, <2>1, <2>2, <2>7, <2>12, <2>25 DEF PathOK, FileOK
    <3>3. EntryOK(q)' BY <1>1, <2>18, <2>20, <2>25 DEF EntryOK
    <3>4. HeadOK(h, q)' BY <2>11, NullIsNoObject DEF HeadOK
    <3>5. ctx'[c].name = q /\ ctx'[c].handle = f /\ ctx'[c].entry = NewEntry /\ IsOpen(c)'
          /\ ctx'[c].modify = ctx[c].modify
      BY <1>1, <2>2, <2>7, <2>14 DEF Renamed, IsOpen
    <3>6. UsersOK(q)' BY <2>12, <2>16, <3>5 DEF UsersOK
    <3>7. Counted(q)' BY <2>16, <2>18, <2>25, <3>5, FS_Singleton DEF Counted
    <3>8. Matches(p) => Matches(q)' BY <2>10, <2>13 DEF Matches
    <3>9. Live(h, q)'
      <4>1. Users(q)' # {} /\ q \notin deleting' BY <1>1, <2>6, <2>16 DEF Idle
      <4>2. ~file'[cacheAt'[q]].pending /\ truth'[q] # NULL
        BY <2>3, <2>12, <2>13, <2>25 DEF Live
      <4>3. /\ file'[cacheAt'[q]].stamp = heap'[mOpen'[q].entry].stamp
            /\ heap'[mOpen'[q].entry].sized = (truth'[q] # 0)
            /\ h[heap'[mOpen'[q].entry].stamp] = truth'[q]
            /\ file'[cacheAt'[q]].data = 0 /\ truth'[q] # 0 => Matches(p)
        BY <2>3, <2>7, <2>12, <2>13, <2>18, <2>20, <2>25 DEF Live
      <4>4. Matches(q)' \/ \E d \in Users(q)' : ctx'[d].modify
        BY <2>3, <2>5, <2>16, <3>5, <3>8 DEF Live
      <4> QED BY <3>7, <3>8, <4>1, <4>2, <4>3, <4>4 DEF Live
    <3> QED BY <3>1, <3>2, <3>3, <3>4, <3>6, <3>9 DEF PathOK
  <2>27. Agree(h, h) BY DEF Agree
  <2>28. \A s \in {p, q} : PathOK(h, s)' BY <2>24, <2>26
  <2> QED BY <2>22, <2>23, <2>27, <2>28, StepFits
<1> QED BY <1>4, <1>5


------------------------------------------------------------------------------
(* Every step keeps CalmInv.                                               *)
LEMMA InitFits ==
  ASSUME Init
  PROVE  CalmInv
<1>1. TypeOK BY InitType
<1>2. PICK h \in Contents : \A t \in Nat : h[t] = 1
  <2>1. [t \in Nat |-> 1] \in Contents /\ \A t \in Nat : [s \in Nat |-> 1][t] = 1 BY DEF Contents
  <2> QED BY <2>1
<1>3. \A p \in Paths : /\ cacheAt[p] = NULL /\ mOpen[p] = Unregistered /\ mOpen[p].entry = NULL /\ headCache[p] = NULL
                       /\ p \notin deleting /\ Users(p) = {}
  BY DEF Init, Unregistered, Users, InUse, NoContext
<1>4. NULL # ABSENT /\ NULL \notin Entries /\ ABSENT \notin Entries BY NullIsNoObject
<1>5. Apart BY <1>3, <1>4 DEF Apart
<1>6. ASSUME NEW p \in Paths PROVE PathOK(h, p)
  <2>1. /\ remote[p] # NULL => remote[p].data = 1 /\ remote[p].stamp = 1
        /\ truth[p] = IF remote[p] = NULL THEN NULL ELSE 1
        /\ clock = 1
    BY DEF Init
  <2>2. 1 # NULL BY NullIsNoObject
  <2>3. RemoteOK(h, p) BY <1>2, <2>1 DEF RemoteOK
  <2>4. FileOK(h, p) /\ EntryOK(p) /\ HeadOK(h, p) /\ UsersOK(p)
    BY <1>3, <1>4 DEF FileOK, EntryOK, HeadOK, UsersOK
  <2>5. Idle(p) BY <1>3, <2>1, <2>2 DEF Idle, Matches
  <2> QED BY <2>3, <2>4, <2>5 DEF PathOK
<1> QED BY <1>5, <1>6 DEF CalmInv

LEMMA NextFits ==
  ASSUME TypeOK, TypeOK', NoEntryLeak', CalmInv, [Next]_vars
  PROVE  CalmInv'
<1> SUFFICES ASSUME Calm' PROVE Fit' BY DEF CalmInv, Fit
<1>1. world' = world BY DEF Next, vars
<1>2. Calm BY <1>1 DEF Calm
<1>3. PICK h \in Contents : \A r \in Paths : PathOK(h, r) BY <1>2 DEF CalmInv
<1>4. Apart BY <1>2 DEF CalmInv
<1>5. ASSUME NEW c \in Contexts, Callback(c), ~UNCHANGED vars PROVE Fit'
  <2>1. ASSUME NEW p \in Paths, NEW doc \in BOOLEAN, Open(c, p, doc) PROVE Fit'
    BY <1>2, <1>3, <1>4, <2>1, OpenFits
  <2>2. ASSUME NEW p \in Paths, NEW doc \in BOOLEAN, Create(c, p, doc) PROVE Fit'
    BY <1>2, <1>3, <1>4, <2>2, CreateFits
  <2>3. CASE Work(c) BY <1>2, <1>3, <1>4, <2>3, WorkFits
  <2>4. CASE SetDelete(c) BY <1>2, <1>3, <1>4, <2>4, SetDeleteFits
  <2>5. CASE Cleanup(c) BY <1>2, <1>3, <1>4, <2>5, CleanupFits
  <2>6. CASE Close(c) BY <1>2, <1>3, <1>4, <2>6, CloseFits
  <2>7. ASSUME NEW q \in Paths, Rename(c, q), q # ctx[c].path PROVE Fit' BY <1>2, <1>3, <1>4, <2>7, RenameFits
  <2>8. ASSUME NEW q \in Paths, Rename(c, q), q = ctx[c].path PROVE UNCHANGED vars BY <1>1, <2>8, RenameBack
  <2> QED BY <1>5, <2>1, <2>2, <2>3, <2>4, <2>5, <2>6, <2>7, <2>8 DEF Callback, Work
<1>6. ASSUME NEW p \in Paths, LookUp(p) PROVE Fit'
  <2>1. PICK o \in HeadObject(p, remote, headCache, heap) : headCache' = o.cache /\ Heap(o.heap)
    BY <1>6 DEF LookUp
  <2>2. mOpen[p].entry = NULL BY <1>6 DEF LookUp, Unregistered
  <2> QED BY <1>2, <1>3, <1>4, <1>6, <2>1, <2>2, LookUpFits DEF LookUp
<1>7. ASSUME NEW p \in Paths, Expire(p) PROVE Fit' BY <1>3, <1>4, <1>7, ExpireFits
<1>8. ASSUME NEW p \in Paths, StoredElsewhere(p) PROVE Fit' BY <1>3, <1>4, <1>8, ElsewhereFits
<1>9. CASE UNCHANGED vars
  <2>1. /\ UNCHANGED <<remote, cacheAt, file, heap, mOpen, headCache, ctx, deleting, truth, clock>>
    BY <1>9 DEF vars
  <2>2. clock \in Nat BY Types
  <2>3. OnlyAt({}) BY <2>1, <2>2 DEF OnlyAt
  <2>4. Apart' BY <1>4, <2>1 DEF Apart
  <2>5. Agree(h, h) BY DEF Agree
  <2>6. {} \in SUBSET Paths /\ \A s \in {} : PathOK(h, s)' OBVIOUS
  <2> QED BY <1>3, <1>4, <2>3, <2>4, <2>5, <2>6, StepFits
<1> QED BY <1>5, <1>6, <1>7, <1>8, <1>9 DEF Next

(* what CreatesOnlyNew says of a step                                      *)
CreatesNew ==
  Calm => \A c \in Contexts :
       ~InUse(c) /\ IsOpen(c)' /\ ctx'[c].modify =>
         /\ remote[ctx'[c].path] = NULL
         /\ \A d \in Contexts : IsOpen(d) => ctx[d].path # ctx'[c].path

LEMMA NextCreates ==
  ASSUME TypeOK, CalmInv, Next
  PROVE  CreatesNew
<1> SUFFICES ASSUME Calm, NEW c \in Contexts, ~InUse(c), IsOpen(c)', ctx'[c].modify
             PROVE  /\ remote[ctx'[c].path] = NULL
                    /\ \A d \in Contexts : IsOpen(d) => ctx[d].path # ctx'[c].path
  BY DEF CreatesNew
<1>1. PICK h \in Contents : \A r \in Paths : PathOK(h, r) BY DEF CalmInv
<1>2. ~IsOpen(c) /\ ctx'[c].state # ctx[c].state BY DEF IsOpen, InUse
<1>3. PICK a \in Contexts : Callback(a)
  <2>1. \A p \in Paths : ~LookUp(p) /\ ~Expire(p) /\ ~StoredElsewhere(p)
    BY <1>2 DEF LookUp, Expire, StoredElsewhere
  <2> QED BY <2>1 DEF Next
<1>4. ~Work(a) BY <1>2, WorkKeeps DEF SameUse
<1>5. ~SetDelete(a) BY <1>2 DEF SetDelete
<1>6. ~Cleanup(a)
  <2> SUFFICES ASSUME Cleanup(a) PROVE FALSE OBVIOUS
  <2>1. ctx'[a].state = "cleaned" /\ \A d \in Contexts \ {a} : ctx'[d] = ctx[d] BY CleanupKeeps
  <2> QED BY <1>2, <2>1 DEF IsOpen
<1>7. ~Close(a)
  <2> SUFFICES ASSUME Close(a) PROVE FALSE OBVIOUS
  <2>1. ~InUse(a)' /\ \A d \in Contexts \ {a} : ctx'[d] = ctx[d] BY CloseKeeps
  <2> QED BY <1>2, <2>1 DEF IsOpen, InUse
<1>8. \A q \in Paths : ~Rename(a, q)
  <2> SUFFICES ASSUME NEW q \in Paths, Rename(a, q) PROVE FALSE OBVIOUS
  <2>0. q # ctx[a].path BY <1>2 DEF Rename
  <2>1. PICK o \in CanCreateObject(q) :
          IF o.entry # NULL \/ mOpen[ctx[a].path] = Unregistered THEN UNCHANGED ctx ELSE RenameReleased(a, q, o)
    BY <2>0 DEF Rename
  <2>2. ctx' = ctx \/ Renamed(a, q)
    <3>1. IsOpen(a) BY DEF Rename
    <3> QED BY <2>1, <3>1, RenameContexts DEF RenameReleased
  <2> QED BY <1>2, <2>2 DEF Renamed
<1>9. ASSUME NEW p \in Paths, NEW doc \in BOOLEAN, Open(a, p, doc) PROVE FALSE
  <2>1. PICK o : IF o.entry = NULL \/ Blocked(p) THEN UNCHANGED ctx ELSE NewContext(a, p, o.entry, CacheFile(p), FALSE, doc)
    BY <1>9 DEF Open
  <2>2. NewContext(a, p, o.entry, CacheFile(p), FALSE, doc) BY <1>2, <2>1
  <2>3. ContextsOK(ctx) BY TypesApart
  <2>4. ctx'[a].modify = FALSE /\ \A d \in Contexts \ {a} : ctx'[d] = ctx[d]
    BY <2>2, <2>3 DEF NewContext, ContextsOK
  <2> QED BY <1>2, <2>4
<1>10. PICK p \in Paths, doc \in BOOLEAN : Create(a, p, doc)
  BY <1>3, <1>4, <1>5, <1>6, <1>7, <1>8, <1>9 DEF Callback, Work
<1>11. PICK o \in CanCreateObject(p) :
         IF o.entry # NULL \/ Blocked(p) THEN UNCHANGED ctx ELSE NewContext(a, p, NewEntry, CacheFile(p), TRUE, doc)
  BY <1>10 DEF Create
<1>12. o.entry = NULL /\ NewContext(a, p, NewEntry, CacheFile(p), TRUE, doc) BY <1>2, <1>11
<1>13. ContextsOK(ctx) BY TypesApart
<1>14. ctx'[a].path = p /\ \A d \in Contexts \ {a} : ctx'[d] = ctx[d]
  BY <1>12, <1>13 DEF NewContext, ContextsOK
<1>15. a = c BY <1>2, <1>14
<1>16. Admits(p, doc) BY <1>10 DEF Create
<1>17. Idle(p) /\ remote[p] = NULL BY <1>1, <1>12, <1>16, CreateIdle
<1>18. \A d \in Contexts : IsOpen(d) => ctx[d].path # p BY <1>17, Types DEF Idle, Users, UserTyped
<1> QED BY <1>14, <1>15, <1>17, <1>18

LEMMA CalmGives ==
  ASSUME TypeOK, CalmInv
  PROVE  RegisteredWhenCalm /\ ReadsSeeWrites /\ Durable
<1>1. ASSUME Calm, NEW h, \A r \in Paths : PathOK(h, r), NEW c \in Contexts, IsOpen(c)
      PROVE  /\ mOpen[ctx[c].path].entry = ctx[c].entry
             /\ mOpen[ctx[c].path].ref >= Cardinality({d \in Contexts : IsOpen(d) /\ ctx[d].path = ctx[c].path})
  <2>1. PICK p \in Paths : p = ctx[c].path BY <1>1, Types DEF UserTyped
  <2>2. ctx[c].entry = mOpen[p].entry /\ mOpen[p].ref = Cardinality(Users(p)) BY <1>1, <2>1, OpenHas DEF Counted
  <2> DEFINE open == {d \in Contexts : IsOpen(d) /\ ctx[d].path = p}
  <2>3. open \subseteq Users(p) BY DEF IsOpen, InUse, Users
  <2> HIDE DEF open
  <2>4. Cardinality(open) <= Cardinality(Users(p)) BY <2>3, UserCount, FS_Subset
  <2>5. IsFiniteSet(open) BY <2>3, UserCount, FS_Subset
  <2>6. Cardinality(open) \in Nat BY <2>5, FS_CardinalityType
  <2> QED BY <2>1, <2>2, <2>4, <2>6, UserCount DEF open
<1>2. ASSUME Calm, NEW h, \A r \in Paths : PathOK(h, r), NEW c \in Contexts, IsOpen(c), ctx[c].name \notin deleting,
             NEW o \in SyncContent(c), o.ok
      PROVE  o.file[ctx[c].handle].data = truth[ctx[c].name]
  <2>1. PICK p \in Paths : p = ctx[c].path BY <1>2, Types DEF UserTyped
  <2>2. c \in Users(p) /\ (Live(h, p) \/ Condemned(p)) /\ ctx[c].name = p /\ ctx[c].handle = cacheAt[p]
    BY <1>2, <2>1, OpenHas
  <2>3. Live(h, p) BY <1>2, <2>2 DEF Condemned
  <2>4. PICK f : f = cacheAt[p] OBVIOUS
  <2>5. o.file[f].data = truth[p] BY <1>2, <2>2, <2>3, <2>4, SyncLive
  <2> QED BY <2>2, <2>4, <2>5
<1>3. ASSUME Calm, NEW h, \A r \in Paths : PathOK(h, r), NEW p \in Paths,
             \A c \in Contexts : InUse(c) => p \notin {ctx[c].path, ctx[c].name}
      PROVE  IF truth[p] = NULL THEN remote[p] = NULL ELSE remote[p] # NULL /\ remote[p].data = truth[p]
  <2>1. Users(p) = {} BY <1>3 DEF Users
  <2>2. Idle(p) BY <1>3, <2>1 DEF PathOK, Live, Condemned, Dead
  <2> QED BY <2>2 DEF Idle, Matches
<1> QED BY <1>1, <1>2, <1>3 DEF CalmInv, RegisteredWhenCalm, Registered, ReadsSeeWrites, Durable

------------------------------------------------------------------------------
(* What holds in every state: the types, that the table does not outlive   *)
(* its users, that a name to be deleted is waiting for a handle, that       *)
(* contexts have the paths of their files unless files may be shared, and,  *)
(* in a calm world, in which of the four states of CalmInv each path is.    *)
Inv == TypeOK /\ NoEntryLeak /\ Doomed /\ NamesFit /\ CalmInv

(* Inv is an invariant: whatever calls of the cloud API fail and whatever  *)
(* handles the callbacks come from.                                        *)
THEOREM FileInvariance == Spec => []Inv
<1>1. Init => Inv BY InitType, InitLeak, InitFits DEF Inv
<1>2. Inv /\ [Next]_vars => Inv'
  <2> SUFFICES ASSUME Inv, [Next]_vars PROVE Inv' OBVIOUS
  <2>1. TypeOK' BY NextType DEF Inv
  <2>2. NoEntryLeak' /\ Doomed' /\ NamesFit' BY <2>1, NextLeak, NextDoomed, NextNames DEF Inv
  <2>3. CalmInv' BY <2>1, <2>2, NextFits DEF Inv
  <2> QED BY <2>1, <2>2, <2>3 DEF Inv
<1> QED BY <1>1, <1>2, PTL DEF Spec

(* The types: in particular the cache files and DirEntries that exist are  *)
(* exactly those that a table or a context points to.                      *)
THEOREM FileTypeCorrect == Spec => []TypeOK
<1>1. Inv => TypeOK BY DEF Inv
<1> QED BY <1>1, FileInvariance, PTL

(* mOpenDirEntry never counts more handles of a path than are not closed.  *)
THEOREM NoEntryLeakTheorem == Spec => []NoEntryLeak
<1>1. Inv => NoEntryLeak BY DEF Inv
<1> QED BY <1>1, FileInvariance, PTL

(* An object leaves the bucket only through an open handle of its file,    *)
(* which is to be deleted or has the same object under its new name: this  *)
(* holds whatever call of the cloud API fails, and whether one that fails  *)
(* was carried out or not.  Only where a file may be renamed while there   *)
(* are other handles of it may the handle be one of another file.          *)
THEOREM DeletesOnlyTheDeletedTheorem == Spec => DeletesOnlyTheDeleted
<1>1. Inv /\ [Next]_vars => [RemovesOnlyTheDeleted]_vars BY NextDoomed DEF Inv
<1> QED BY <1>1, FileInvariance, PTL DEF Spec, DeletesOnlyTheDeleted, RemovesOnlyTheDeleted

(* When it is calm, every open handle is counted in mOpenDirEntry under    *)
(* the path of its context, and shares the DirEntry that is found there.   *)
THEOREM RegisteredWhenCalmTheorem == Spec => []RegisteredWhenCalm
<1>1. Inv => RegisteredWhenCalm BY CalmGives DEF Inv
<1> QED BY <1>1, FileInvariance, PTL

(* When it is calm, a Read that does not fail gives what was stored last   *)
(* in the file, through this handle or another, unless it is deleted.      *)
THEOREM ReadsSeeWritesTheorem == Spec => []ReadsSeeWrites
<1>1. Inv => ReadsSeeWrites BY CalmGives DEF Inv
<1> QED BY <1>1, FileInvariance, PTL

(* When it is calm, a name that no handle has open any more is in the      *)
(* bucket as it was stored last, or not at all if it was deleted last.     *)
THEOREM DurableTheorem == Spec => []Durable
<1>1. Inv => Durable BY CalmGives DEF Inv
<1> QED BY <1>1, FileInvariance, PTL

(* When it is calm, Create succeeds only for a path without object and     *)
(* without open handle, although it asks the head cache and mOpenDirEntry. *)
THEOREM CreatesOnlyNewTheorem == Spec => CreatesOnlyNew
<1>1. Inv /\ [Next]_vars => [CreatesNew]_vars BY NextCreates DEF Inv
<1> QED BY <1>1, FileInvariance, PTL DEF Spec, CreatesOnlyNew, CreatesNew

=============================================================================
