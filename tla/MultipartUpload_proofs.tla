----------------------- MODULE MultipartUpload_proofs -----------------------
(***************************************************************************)
(* Proofs about SdkS3Client::PutObject, for any callers, threads, sizes    *)
(* and part sizes: a call that has returned has no task left, leaves no    *)
(* upload open without a reason, fails by itself, and replaces the object  *)
(* as a whole or not at all.                                               *)
(***************************************************************************)
EXTENDS MultipartUpload, SequenceTheorems, WellFoundedInduction, TLAPS

Part == [offset : Nat, length : Nat \ {0}, result : {"none", "etag", "bad"}, interrupt : BOOLEAN]

Places == {"idle", "read", "put", "create", "add", "collect", "interrupt", "drain", "complete", "done"}

Calls == [at : Places, size : Sizes \cup {0}, part : Nat \ {0}, tries : Nat, answer : {"none", "ok", "error"}]

Upload == [state : {"none", "open", "aborted", "completed"}, stored : Seq(Seq(Nat))]

Troubles == {"read", "put", "create", "part", "abort", "complete"}

Task == Callers \X Nat

Work == [at : {"idle", "send", "abort"}, for : Task \cup {<<>>}, tries : 0 .. MaxApiRetryCount]

(* where a call has parts, and where threads may have tasks of it           *)
Parted  == {"create", "add", "collect", "interrupt", "drain", "complete"}
Awaited == {"add", "collect", "interrupt", "drain"}

(* the parts lie one behind the other and make up the file                  *)
Laid(ps, size) ==
  /\ Len(ps) > 0
  /\ ps[1].offset = 0
  /\ \A i \in DOMAIN ps : ps[i].offset + ps[i].length <= size
  /\ \A i \in DOMAIN ps : i < Len(ps) =>
       ps[i + 1].offset = ps[i].offset + ps[i].length /\ ps[i].length = PartSize
  /\ ps[Len(ps)].offset + ps[Len(ps)].length = size

(* the task of part i may be queued or at work                              *)
Open(k, ps, i) ==
  /\ i \in DOMAIN ps
  /\ k.at \in Awaited
  /\ k.at = "add" => i < k.part
  /\ ps[i].result = "none"

(* how far a call k with the parts ps is                                    *)
Progress(k, ps) ==
  /\ IF k.at \in Parted THEN Laid(ps, k.size) /\ k.part <= Len(ps) ELSE ps = <<>> /\ k.part = 1
  /\ k.answer # "none" => k.at = "done"
  /\ \A i \in DOMAIN ps :
       /\ k.at = "create" \/ (k.at = "add" /\ i >= k.part) => ps[i].result = "none"
       /\ k.at = "complete" \/ (k.at = "collect" /\ i < k.part) => ps[i].result = "etag"
       /\ k.at = "drain" /\ i < k.part => ps[i].result # "none"
       /\ ps[i].interrupt => k.at \in {"interrupt", "drain"}

(* what the store has of the upload u                                       *)
Stored(k, ps, u) ==
  /\ k.at \in {"idle", "read", "put", "create"} => u.state = "none"
  /\ k.at \in Parted /\ u.state \in {"none", "open"} =>
       /\ Len(u.stored) = Len(ps)
       /\ \A i \in DOMAIN ps : ps[i].result = "etag" => u.stored[i] = Content(ps[i].offset, ps[i].length)

(* what has gone wrong, and that the upload is then not left open           *)
Reasons(k, ps, u, tr) ==
  /\ k.answer = "error" => tr # {}
  /\ k.at \in {"interrupt", "drain"} \/ (\E i \in DOMAIN ps : ps[i].result = "bad") =>
       tr # {} /\ (u.state # "open" \/ tr \cap {"abort", "read"} # {})
  /\ k.at = "done" /\ u.state = "open" => tr \cap {"abort", "create", "complete", "read"} # {}

CallerOK(k, ps, u, tr) == Progress(k, ps) /\ Stored(k, ps, u) /\ Reasons(k, ps, u, tr)

Types ==
  /\ call \in [Callers -> Calls] /\ parts \in [Callers -> Seq(Part)]
  /\ upload \in [Callers -> Upload] /\ trouble \in [Callers -> SUBSET Troubles]
  /\ object \in [Callers -> Seq(Nat)]
  /\ queue \in Seq(Task) /\ work \in [Workers -> Work]
  /\ crashed \in BOOLEAN

OpenTask(t) == Open(call[t[1]], parts[t[1]], t[2])

Tasks ==
  /\ IsInjective(queue)
  /\ \A i \in DOMAIN queue : OpenTask(queue[i])
  /\ \A w \in Workers :
       IF work[w].at = "idle" THEN work[w] = NoWork
       ELSE /\ work[w].for \in Task /\ OpenTask(work[w].for)
            /\ \A i \in DOMAIN queue : queue[i] # work[w].for
            /\ \A v \in Workers : v # w => work[v].for # work[w].for
  /\ \A w \in Workers : work[w].at = "abort" => trouble[work[w].for[1]] # {}

Inv ==
  /\ Types /\ Tasks
  /\ \A c \in Callers : CallerOK(call[c], parts[c], upload[c], trouble[c])

------------------------------------------------------------------------------
(* Sizes, parts and contents                                                *)

LEMMA UnitCountIs ==
  ASSUME NEW size \in Nat, NEW n, n = UnitCount(size, PartSize)
  PROVE  n \in Nat /\ (n > 0 => (n - 1) * PartSize < size) /\ size <= n * PartSize
  <1>1. PICK a \in Nat, p \in Nat : p = PartSize /\ p > 0 /\ a = size + p - 1 /\ n = a \div p
    BY PartSizePositive DEF UnitCount
  <1>2. n \in Nat /\ n * p <= a /\ a < (n + 1) * p
    BY <1>1
  <1>3. (n + 1) * p = n * p + p /\ (n - 1) * p = n * p - p /\ n * p \in Int
    BY <1>1, <1>2
  <1> QED
    BY <1>1, <1>2, <1>3

LEMMA FilePartsLaid ==
  ASSUME NEW size \in Nat, UnitCount(size, PartSize) > 1
  PROVE  /\ FileParts(size) \in Seq(Part) /\ Len(FileParts(size)) = UnitCount(size, PartSize)
         /\ Laid(FileParts(size), size)
         /\ \A i \in DOMAIN FileParts(size) : FileParts(size)[i].result = "none" /\ ~FileParts(size)[i].interrupt
  <1>1. PICK n, p, ps : n = UnitCount(size, PartSize) /\ p = PartSize /\ ps = FileParts(size)
    OBVIOUS
  <1>2. n \in Nat /\ n > 1 /\ (n - 1) * p < size /\ size <= n * p /\ p \in Nat /\ p > 0
    BY <1>1, UnitCountIs, PartSizePositive
  <1>3. \A i \in 1 .. n : /\ (i - 1) * p \in Nat /\ (i - 1) * p <= (n - 1) * p /\ i * p = (i - 1) * p + p
                         /\ (i < n => i * p <= (n - 1) * p)
    BY <1>2
  <1>4. DOMAIN ps = 1 .. n
    BY <1>1 DEF FileParts
  <1>5. ASSUME NEW i \in 1 .. n
        PROVE  \E o, l : /\ o = (i - 1) * p /\ l = (IF size - o < p THEN size - o ELSE p)
                        /\ ps[i] = [offset |-> o, length |-> l, result |-> "none", interrupt |-> FALSE]
    BY <1>1 DEF FileParts
  <1>6. \A i \in 1 .. n :
          /\ ps[i].offset = (i - 1) * p /\ ps[i].result = "none" /\ ps[i].interrupt = FALSE
          /\ ps[i].length = IF size - (i - 1) * p < p THEN size - (i - 1) * p ELSE p
    <2> SUFFICES ASSUME NEW i \in 1 .. n
                 PROVE  /\ ps[i].offset = (i - 1) * p /\ ps[i].result = "none" /\ ps[i].interrupt = FALSE
                        /\ ps[i].length = IF size - (i - 1) * p < p THEN size - (i - 1) * p ELSE p
      OBVIOUS
    <2>1. PICK o, l : /\ o = (i - 1) * p /\ l = (IF size - o < p THEN size - o ELSE p)
                      /\ ps[i] = [offset |-> o, length |-> l, result |-> "none", interrupt |-> FALSE]
      BY <1>5
    <2>2. ps[i].offset = o /\ ps[i].length = l /\ ps[i].result = "none" /\ ps[i].interrupt = FALSE
      BY <2>1
    <2> QED
      BY <2>1, <2>2
  <1>7. \A i \in 1 .. n : /\ ps[i].offset + ps[i].length <= size /\ ps[i].length \in Nat \ {0}
                         /\ (i < n => ps[i].length = p)
    BY <1>2, <1>3, <1>6
  <1>8. ASSUME NEW i \in 1 .. n
        PROVE  ps[i] \in Part
    <2>1. PICK o, l : ps[i] = [offset |-> o, length |-> l, result |-> "none", interrupt |-> FALSE]
      BY <1>5
    <2>2. o \in Nat /\ l \in Nat \ {0}
      BY <1>3, <1>6, <1>7, <2>1
    <2> QED
      BY <2>1, <2>2 DEF Part
  <1>9. ps \in Seq(Part) /\ Len(ps) = n
    <2>1. ps \in [1 .. n -> Part]
      BY <1>1, <1>4, <1>8 DEF FileParts
    <2> QED
      BY <1>2, <2>1, LenProperties, SeqDef
  <1>10. ps[n].offset + ps[n].length = size
    <2>1. n \in 1 .. n /\ n * p = (n - 1) * p + p /\ (n - 1) * p \in Nat
      BY <1>2, <1>3
    <2>2. PICK q \in Nat : q = (n - 1) * p
      BY <2>1
    <2>3. ps[n].offset = q /\ ps[n].length = IF size - q < p THEN size - q ELSE p
      BY <1>6, <2>1, <2>2
    <2>4. size <= q + p
      BY <1>2, <2>1, <2>2
    <2> QED
      BY <1>2, <2>2, <2>3, <2>4
  <1>11. \A i \in 1 .. n : i < n => ps[i + 1].offset = ps[i].offset + ps[i].length
    <2> SUFFICES ASSUME NEW i \in 1 .. n, i < n PROVE ps[i + 1].offset = ps[i].offset + ps[i].length
      OBVIOUS
    <2>1. i + 1 \in 1 .. n /\ ps[i + 1].offset = i * p
      BY <1>2, <1>6
    <2> QED
      BY <1>3, <1>6, <1>7, <2>1
  <1>12. ps[1].offset = 0
    BY <1>2, <1>6
  <1>13. Laid(ps, size)
    BY <1>2, <1>4, <1>7, <1>9, <1>10, <1>11, <1>12, <1>1 DEF Laid
  <1> QED
    BY <1>1, <1>4, <1>6, <1>9, <1>13

LEMMA ContentIs ==
  ASSUME NEW o \in Nat, NEW l \in Nat
  PROVE  Content(o, l) \in Seq(Nat) /\ Len(Content(o, l)) = l
  <1>1. Content(o, l) \in [1 .. l -> Nat]
    BY DEF Content
  <1> QED
    BY <1>1, SeqDef, LenProperties

LEMMA ContentJoined ==
  ASSUME NEW l \in Nat, NEW m \in Nat
  PROVE  Content(0, l) \o Content(l, m) = Content(0, l + m)
  <1>1. /\ Content(0, l) \in Seq(Nat) /\ Len(Content(0, l)) = l
        /\ Content(l, m) \in Seq(Nat) /\ Len(Content(l, m)) = m
        /\ Content(0, l + m) \in Seq(Nat) /\ Len(Content(0, l + m)) = l + m
    BY ContentIs
  <1>2. PICK s : s = Content(0, l) \o Content(l, m)
    OBVIOUS
  <1>3. PICK a \in Seq(Nat), b \in Seq(Nat) :
          a = Content(0, l) /\ b = Content(l, m) /\ Len(a) = l /\ Len(b) = m
    BY <1>1
  <1>4. s \in Seq(Nat) /\ Len(s) = l + m /\ \A i \in 1 .. l + m : s[i] = IF i <= l THEN a[i] ELSE b[i - l]
    <2>1. s = a \o b
      BY <1>2, <1>3
    <2>2. /\ a \o b \in Seq(Nat) /\ Len(a \o b) = Len(a) + Len(b)
          /\ \A i \in 1 .. Len(a) + Len(b) : (a \o b)[i] = IF i <= Len(a) THEN a[i] ELSE b[i - Len(a)]
      BY ConcatProperties
    <2> QED
      BY <1>3, <2>1, <2>2
  <1>5. ASSUME NEW i \in 1 .. l + m
        PROVE  s[i] = Content(0, l + m)[i]
    <2>1. Content(0, l + m)[i] = i
      BY DEF Content
    <2>2. CASE i <= l
      <3>1. i \in 1 .. l
        BY <2>2
      <3> QED
        BY <1>3, <1>4, <2>1, <2>2, <3>1 DEF Content
    <2>3. CASE i > l
      <3>1. i - l \in 1 .. m
        BY <2>3
      <3> QED
        BY <1>3, <1>4, <2>1, <2>3, <3>1 DEF Content
    <2> QED
      BY <2>2, <2>3
  <1> QED
    BY <1>1, <1>2, <1>4, <1>5, SeqEqual

(* Induction over the natural numbers, on a set                             *)
Below == {p \in Nat \X Nat : p[1] < p[2]}

LEMMA BelowIsWellFounded == IsWellFoundedOn(Below, Nat)
  BY NatLessThanWellFounded DEF OpToRel, Below

LEMMA Induction ==
  ASSUME NEW n \in Nat, NEW S, 1 \in S, \A i \in 1 .. n : i \in S /\ i < n => i + 1 \in S
  PROVE  1 .. n \subseteq S
  <1> SUFFICES ASSUME (1 .. n) \ S # {} PROVE FALSE
    OBVIOUS
  <1>1. PICK x \in (1 .. n) \ S : \A y \in (1 .. n) \ S : <<y, x>> \notin Below
    BY BelowIsWellFounded, WFMin, (1 .. n) \ S \subseteq Nat
  <1>2. \A y \in (1 .. n) \ S : ~(y < x)
    <2>1. \A y, z \in Nat : y < z => <<y, z>> \in Below
      BY DEF Below
    <2>2. x \in Nat /\ (1 .. n) \ S \subseteq Nat
      BY <1>1
    <2> QED
      BY <1>1, <2>1, <2>2
  <1>3. x - 1 \in 1 .. n /\ x - 1 \in S
    BY <1>1, <1>2
  <1> QED
    BY <1>1, <1>3

(* Parts that lie one behind the other, each stored, make up the file.      *)
LEMMA FlattenIs ==
  ASSUME NEW size \in Nat, NEW ps \in Seq(Part), Laid(ps, size), NEW stored, Len(stored) = Len(ps),
         \A i \in DOMAIN ps : stored[i] = Content(ps[i].offset, ps[i].length)
  PROVE  FlattenSeq(stored) = Content(0, size)
  <1>1. PICK n \in Nat : n = Len(ps) /\ n > 0 /\ DOMAIN ps = 1 .. n
    BY LenProperties DEF Laid
  <1>2. \A i \in 1 .. n : ps[i] \in Part /\ ps[i].offset \in Nat /\ ps[i].length \in Nat
    <2>1. \A i \in 1 .. n : ps[i] \in Part
      BY <1>1, LenProperties
    <2> QED
      BY <2>1 DEF Part
  <1>3. PICK end : end = [i \in 1 .. n |-> ps[i].offset + ps[i].length]
    OBVIOUS
  <1>4. PICK g : g = [i \in 1 .. n |-> Content(0, end[i])]
    OBVIOUS
  <1>5. \A i \in 1 .. n : i # 1 => /\ i - 1 \in 1 .. n /\ end[i - 1] \in Nat /\ end[i - 1] = ps[i].offset
                                  /\ end[i] = end[i - 1] + ps[i].length
    <2> SUFFICES ASSUME NEW i \in 1 .. n, i # 1
                 PROVE  /\ i - 1 \in 1 .. n /\ end[i - 1] \in Nat /\ end[i - 1] = ps[i].offset
                        /\ end[i] = end[i - 1] + ps[i].length
      OBVIOUS
    <2>1. i - 1 \in 1 .. n /\ i - 1 < n /\ (i - 1) + 1 = i
      BY <1>1
    <2>2. ps[i].offset = ps[i - 1].offset + ps[i - 1].length
      BY <1>1, <2>1 DEF Laid
    <2> QED
      BY <1>2, <1>3, <2>1, <2>2
  <1>6. \A i \in 1 .. n : i # 1 => g[i] = g[i - 1] \o stored[i]
    <2> SUFFICES ASSUME NEW i \in 1 .. n, i # 1 PROVE g[i] = g[i - 1] \o stored[i]
      OBVIOUS
    <2>1. PICK l \in Nat, m \in Nat : l = end[i - 1] /\ m = ps[i].length
      BY <1>2, <1>5
    <2>2. g[i - 1] = Content(0, l) /\ g[i] = Content(0, l + m) /\ stored[i] = Content(l, m)
      BY <1>1, <1>4, <1>5, <2>1
    <2> QED
      BY <2>2, ContentJoined
  <1>7. g[1] = stored[1]
    BY <1>1, <1>2, <1>3, <1>4 DEF Laid
  <1>8. g = [i \in 1 .. n |-> IF i = 1 THEN stored[i] ELSE g[i - 1] \o stored[i]]
    BY <1>4, <1>6, <1>7
  <1>9. PICK f : f = (CHOOSE h : h = [i \in 1 .. n |-> IF i = 1 THEN stored[i] ELSE h[i - 1] \o stored[i]])
    OBVIOUS
  <1>10. f = [i \in 1 .. n |-> IF i = 1 THEN stored[i] ELSE f[i - 1] \o stored[i]]
    BY <1>8, <1>9
  <1>11. 1 .. n \subseteq {i \in 1 .. n : f[i] = g[i]}
    <2>1. PICK S : S = {i \in 1 .. n : f[i] = g[i]}
      OBVIOUS
    <2>2. 1 \in S
      BY <1>1, <1>7, <1>10, <2>1
    <2>3. \A i \in 1 .. n : i \in S /\ i < n => i + 1 \in S
      <3> SUFFICES ASSUME NEW i \in 1 .. n, i \in S, i < n PROVE i + 1 \in S
        OBVIOUS
      <3>1. i + 1 \in 1 .. n /\ i + 1 # 1 /\ (i + 1) - 1 = i
        BY <1>1
      <3>2. f[i + 1] = f[i] \o stored[i + 1] /\ g[i + 1] = g[i] \o stored[i + 1]
        BY <1>6, <1>10, <3>1
      <3> QED
        BY <2>1, <3>1, <3>2
    <2> QED
      BY <2>1, <2>2, <2>3, Induction
  <1>12. f[n] = Content(0, size)
    BY <1>1, <1>2, <1>3, <1>4, <1>11 DEF Laid
  <1>13. FlattenSeq(stored) = f[n]
    BY <1>1, <1>9 DEF FlattenSeq
  <1> QED
    BY <1>12, <1>13

------------------------------------------------------------------------------
(* Records and sequences                                                    *)

LEMMA QueueTail ==
  ASSUME NEW q \in Seq(Task), q # <<>>
  PROVE  /\ 1 \in DOMAIN q /\ Head(q) = q[1] /\ q[1] \in Task /\ Tail(q) \in Seq(Task)
         /\ \A i \in DOMAIN Tail(q) : i + 1 \in DOMAIN q /\ i + 1 # 1 /\ Tail(q)[i] = q[i + 1]
  <1>1. Len(q) \in Nat \ {0} /\ DOMAIN q = 1 .. Len(q) /\ q \in [1 .. Len(q) -> Task]
    BY LenProperties, EmptySeq
  <1>2. /\ Head(q) \in Task /\ Tail(q) \in Seq(Task) /\ Len(Tail(q)) = Len(q) - 1
        /\ \A i \in 1 .. Len(Tail(q)) : Tail(q)[i] = q[i + 1]
    BY HeadTailProperties
  <1>3. DOMAIN Tail(q) = 1 .. Len(q) - 1
    BY <1>2, LenProperties
  <1> QED
    BY <1>1, <1>2, <1>3

LEMMA QueueAppend ==
  ASSUME NEW q \in Seq(Task), NEW t \in Task
  PROVE  /\ Append(q, t) \in Seq(Task) /\ DOMAIN Append(q, t) = 1 .. Len(q) + 1 /\ Len(q) \in Nat
         /\ DOMAIN q = 1 .. Len(q) /\ Append(q, t)[Len(q) + 1] = t
         /\ \A i \in DOMAIN q : Append(q, t)[i] = q[i]
  <1>1. Len(q) \in Nat /\ DOMAIN q = 1 .. Len(q)
    BY LenProperties
  <1>2. /\ Append(q, t) \in Seq(Task) /\ Len(Append(q, t)) = Len(q) + 1
        /\ \A i \in 1 .. Len(q) : Append(q, t)[i] = q[i]
        /\ Append(q, t)[Len(q) + 1] = t
    BY AppendProperties
  <1>3. DOMAIN Append(q, t) = 1 .. Len(q) + 1
    BY <1>2, LenProperties
  <1> QED
    BY <1>1, <1>2, <1>3

LEMMA PartsAre ==
  ASSUME NEW ps \in Seq(Part)
  PROVE  Len(ps) \in Nat /\ DOMAIN ps = 1 .. Len(ps) /\ \A i \in DOMAIN ps : ps[i] \in Part
  BY LenProperties

(* qs are the parts ps, but for what the i-th has as its result r and its   *)
(* interrupt b                                                              *)
Marked(ps, i, qs, r, b) ==
  /\ Len(qs) = Len(ps) /\ DOMAIN qs = DOMAIN ps
  /\ \A j \in DOMAIN ps : qs[j].offset = ps[j].offset /\ qs[j].length = ps[j].length
  /\ \A j \in DOMAIN ps : j # i => qs[j] = ps[j]
  /\ qs[i].result = r /\ qs[i].interrupt = b

LEMMA PartMarked ==
  ASSUME NEW ps \in Seq(Part), NEW i \in DOMAIN ps, NEW p, p = ps[i], NEW q,
         \/ q = [p EXCEPT !.interrupt = TRUE]
         \/ \E r \in {"etag", "bad"} : q = [p EXCEPT !.result = r]
  PROVE  /\ [ps EXCEPT ![i] = q] \in Seq(Part)
         /\ Marked(ps, i, [ps EXCEPT ![i] = q], q.result, q.interrupt)
         /\ \/ q.interrupt = TRUE /\ q.result = p.result
            \/ q.interrupt = p.interrupt /\ \E r \in {"etag", "bad"} : q = [p EXCEPT !.result = r] /\ q.result = r
  <1>1. p \in Part
    BY PartsAre
  <1>2. q \in Part /\ q.offset = p.offset /\ q.length = p.length
        /\ \/ q.interrupt = TRUE /\ q.result = p.result
           \/ q.interrupt = p.interrupt /\ \E r \in {"etag", "bad"} : q = [p EXCEPT !.result = r] /\ q.result = r
    <2>1. CASE q = [p EXCEPT !.interrupt = TRUE]
      <3>1. q = [offset |-> p.offset, length |-> p.length, result |-> p.result, interrupt |-> TRUE]
        BY <1>1, <2>1 DEF Part
      <3> QED
        BY <1>1, <3>1 DEF Part
    <2>2. ASSUME NEW r \in {"etag", "bad"}, q = [p EXCEPT !.result = r]
          PROVE  /\ q \in Part /\ q.offset = p.offset /\ q.length = p.length /\ q.interrupt = p.interrupt
                 /\ q.result = r
      <3>1. q = [offset |-> p.offset, length |-> p.length, result |-> r, interrupt |-> p.interrupt]
        BY <1>1, <2>2 DEF Part
      <3> QED
        BY <1>1, <3>1 DEF Part
    <2> QED
      BY <2>1, <2>2
  <1>3. PICK qs : qs = [ps EXCEPT ![i] = q]
    OBVIOUS
  <1>4. i \in 1 .. Len(ps) /\ DOMAIN ps = 1 .. Len(ps)
    BY PartsAre
  <1>5. qs \in Seq(Part) /\ Len(qs) = Len(ps) /\ \A j \in 1 .. Len(ps) : qs[j] = IF j = i THEN q ELSE ps[j]
    BY <1>2, <1>3, <1>4, ExceptSeq
  <1>6. DOMAIN qs = DOMAIN ps
    BY <1>3
  <1>7. Marked(ps, i, qs, q.result, q.interrupt)
    BY <1>2, <1>4, <1>5, <1>6 DEF Marked
  <1> QED
    BY <1>2, <1>3, <1>5, <1>7

LEMMA CallNext ==
  ASSUME NEW k \in Calls, NEW m, m = [k EXCEPT !.part = @ + 1]
  PROVE  m \in Calls /\ m.at = k.at /\ m.part = k.part + 1 /\ m.size = k.size /\ m.answer = k.answer
  <1>1. PICK p \in Nat \ {0} : p = k.part + 1
    BY DEF Calls
  <1>2. m = [at |-> k.at, size |-> k.size, part |-> p, tries |-> k.tries, answer |-> k.answer]
    BY <1>1 DEF Calls
  <1> QED
    BY <1>1, <1>2 DEF Calls

LEMMA CallAnswered ==
  ASSUME NEW k \in Calls, NEW m, NEW a \in {"ok", "error"}, m = [k EXCEPT !.at = "done", !.part = 1, !.answer = a]
  PROVE  m \in Calls /\ m.at = "done" /\ m.part = 1 /\ m.size = k.size /\ m.answer = a
  <1>1. m = [at |-> "done", size |-> k.size, part |-> 1, tries |-> k.tries, answer |-> a]
    BY DEF Calls, Places
  <1> QED
    BY <1>1 DEF Calls, Places

------------------------------------------------------------------------------
(* What a step changes                                                      *)

LEMMA InitInv == Init => Inv
  <1> SUFFICES ASSUME Init PROVE Inv
    OBVIOUS
  <1>1. NoCall \in Calls /\ NoCall.at = "idle" /\ NoCall.part = 1 /\ NoCall.answer = "none"
    BY DEF NoCall, Calls, Places
  <1>2. Old \in Seq(Nat) /\ <<>> \in Seq(Part) /\ <<>> \in Seq(Task) /\ <<>> \in Seq(Seq(Nat))
    BY EmptySeq DEF Old
  <1>3. [state |-> "none", stored |-> <<>>] \in Upload
    BY <1>2 DEF Upload
  <1>4. NoWork \in Work /\ NoWork.at = "idle"
    BY RetriesAreNumbers DEF NoWork, Work
  <1>5. Types
    BY <1>1, <1>2, <1>3, <1>4 DEF Init, Types
  <1>6. Tasks
    BY <1>4 DEF Init, Tasks, IsInjective
  <1>7. \A c \in Callers : CallerOK(call[c], parts[c], upload[c], trouble[c])
    <2> SUFFICES ASSUME NEW c \in Callers PROVE CallerOK(call[c], parts[c], upload[c], trouble[c])
      OBVIOUS
    <2>1. PICK k, ps, u, tr : /\ k = call[c] /\ ps = parts[c] /\ u = upload[c] /\ tr = trouble[c]
                              /\ ps = <<>> /\ tr = {} /\ u = [state |-> "none", stored |-> <<>>] /\ k = NoCall
      BY DEF Init
    <2>2. DOMAIN ps = {}
      BY <2>1
    <2>3. CallerOK(k, ps, u, tr)
      BY <1>1, <2>1, <2>2 DEF CallerOK, Progress, Stored, Reasons, Parted
    <2> QED
      BY <2>1, <2>3
  <1> QED
    BY <1>5, <1>6, <1>7 DEF Inv

(* A caller's step, of its own call                                         *)
LEMMA CallerStep ==
  ASSUME Inv, NEW c \in Callers, NEW k \in Calls, NEW ps \in Seq(Part), NEW u \in Upload,
         NEW tr \in SUBSET Troubles, NEW o \in Seq(Nat),
         call' = [call EXCEPT ![c] = k], parts' = [parts EXCEPT ![c] = ps],
         upload' = [upload EXCEPT ![c] = u], trouble' = [trouble EXCEPT ![c] = tr],
         object' = [object EXCEPT ![c] = o], UNCHANGED <<queue, work, crashed>>,
         trouble[c] \subseteq tr, CallerOK(k, ps, u, tr),
         \A i : Open(call[c], parts[c], i) => Open(k, ps, i)
  PROVE  Inv'
  <1>1. Types'
    BY DEF Inv, Types
  <1>2. \A d \in Callers : IF d = c THEN /\ call'[d] = k /\ parts'[d] = ps /\ upload'[d] = u /\ trouble'[d] = tr
                          ELSE /\ call'[d] = call[d] /\ parts'[d] = parts[d]
                               /\ upload'[d] = upload[d] /\ trouble'[d] = trouble[d]
    BY DEF Inv, Types
  <1>3. \A t \in Task : OpenTask(t) => OpenTask(t)'
    <2> SUFFICES ASSUME NEW t \in Task, OpenTask(t) PROVE OpenTask(t)'
      OBVIOUS
    <2>1. t[1] \in Callers
      BY DEF Task
    <2> QED
      BY <1>2, <2>1 DEF OpenTask
  <1>4. \A i \in DOMAIN queue : queue[i] \in Task
    BY LenProperties DEF Inv, Types
  <1>5. \A w \in Workers : work[w].at = "abort" => trouble[work[w].for[1]]' # {}
    <2> SUFFICES ASSUME NEW w \in Workers, work[w].at = "abort" PROVE trouble[work[w].for[1]]' # {}
      OBVIOUS
    <2>1. work[w].for \in Task /\ trouble[work[w].for[1]] # {}
      BY DEF Inv, Tasks
    <2>2. PICK d \in Callers : d = work[w].for[1] /\ trouble[d] # {}
      BY <2>1 DEF Task
    <2>3. trouble'[d] # {}
      BY <1>2, <2>2
    <2> QED
      BY <2>2, <2>3
  <1>6. Tasks'
    BY <1>3, <1>4, <1>5 DEF Inv, Tasks
  <1>7. \A d \in Callers : CallerOK(call[d], parts[d], upload[d], trouble[d])'
    BY <1>2 DEF Inv
  <1> QED
    BY <1>1, <1>6, <1>7 DEF Inv

(* The task t gives its result, which thread w has, or finds at the head of *)
(* the queue.                                                               *)
LEMMA ResultStep ==
  ASSUME Inv, NEW w \in Workers, NEW t \in Task, NEW c \in Callers, NEW i, t = <<c, i>>,
         \/ work[w] = NoWork /\ queue # <<>> /\ t = Head(queue) /\ queue' = Tail(queue)
         \/ work[w].at # "idle" /\ t = work[w].for /\ UNCHANGED queue,
         NEW qs \in Seq(Part), NEW r \in {"etag", "bad"}, Marked(parts[c], i, qs, r, parts[c][i].interrupt),
         NEW u \in Upload, NEW tr \in SUBSET Troubles, trouble[c] \subseteq tr,
         parts' = [parts EXCEPT ![c] = qs], work' = [work EXCEPT ![w] = NoWork],
         upload' = [upload EXCEPT ![c] = u], trouble' = [trouble EXCEPT ![c] = tr],
         UNCHANGED <<call, object>>, crashed' \in BOOLEAN,
         Stored(call[c], qs, u), Reasons(call[c], qs, u, tr)
  PROVE  Inv'
  <1>1. /\ \A j \in DOMAIN queue : queue[j] \in Task
        /\ queue' \in Seq(Task)
        /\ \/ UNCHANGED queue /\ work[w].at # "idle" /\ t = work[w].for
           \/ /\ 1 \in DOMAIN queue /\ t = queue[1] /\ work[w] = NoWork
              /\ \A j \in DOMAIN queue' : j + 1 \in DOMAIN queue /\ j + 1 # 1 /\ queue'[j] = queue[j + 1]
    BY LenProperties, QueueTail DEF Inv, Types
  <1>2. DOMAIN queue \subseteq Nat /\ DOMAIN queue' \subseteq Nat
    BY <1>1, LenProperties DEF Inv, Types
  <1>3. NoWork \in Work /\ NoWork.at = "idle" /\ NoWork.for = <<>> /\ <<>> \notin Task
    BY RetriesAreNumbers DEF NoWork, Work, Task
  <1>4. Types'
    BY <1>1, <1>3 DEF Inv, Types
  <1>5. \A d \in Callers : IF d = c THEN /\ parts'[d] = qs /\ upload'[d] = u /\ trouble'[d] = tr
                          ELSE parts'[d] = parts[d] /\ upload'[d] = upload[d] /\ trouble'[d] = trouble[d]
    BY DEF Inv, Types
  <1>6. OpenTask(t)
    <2>1. CASE UNCHANGED queue /\ work[w].at # "idle" /\ t = work[w].for
      BY <2>1 DEF Inv, Tasks
    <2>2. CASE 1 \in DOMAIN queue /\ t = queue[1]
      BY <2>2 DEF Inv, Tasks
    <2> QED
      BY <1>1, <2>1, <2>2
  <1>7. \A s \in Task : s # t /\ OpenTask(s) => OpenTask(s)'
    <2> SUFFICES ASSUME NEW s \in Task, s # t, OpenTask(s) PROVE OpenTask(s)'
      OBVIOUS
    <2>1. PICK d \in Callers, j \in Nat : s = <<d, j>>
      BY DEF Task
    <2>2. Open(call[d], parts[d], j)
      BY <2>1 DEF OpenTask
    <2>3. d = c => j # i
      BY <2>1
    <2>4. Open(call[d], parts'[d], j)
      BY <1>5, <2>2, <2>3 DEF Open, Marked
    <2> QED
      BY <2>1, <2>4 DEF OpenTask
  <1>8. \A j \in DOMAIN queue' : /\ queue'[j] # t /\ queue'[j] \in Task
                                /\ \E l \in DOMAIN queue : queue'[j] = queue[l]
    <2>1. CASE UNCHANGED queue /\ work[w].at # "idle" /\ t = work[w].for
      BY <1>1, <2>1 DEF Inv, Tasks
    <2>2. CASE /\ 1 \in DOMAIN queue /\ t = queue[1]
               /\ \A j \in DOMAIN queue' : j + 1 \in DOMAIN queue /\ j + 1 # 1 /\ queue'[j] = queue[j + 1]
      BY <1>1, <2>2 DEF Inv, Tasks, IsInjective
    <2> QED
      BY <1>1, <2>1, <2>2
  <1>9. (\A j \in DOMAIN queue : OpenTask(queue[j]))'
    <2>1. \A s \in Task : s # t /\ (\E l \in DOMAIN queue : s = queue[l]) =>
            Open(call'[s[1]], parts'[s[1]], s[2])
      BY <1>7 DEF OpenTask, Inv, Tasks
    <2> QED
      BY <1>8, <2>1 DEF OpenTask
  <1>10. IsInjective(queue)'
    <2>1. IsInjective(queue)
      BY DEF Inv, Tasks
    <2> QED
      BY <1>1, <1>2, <2>1 DEF IsInjective
  <1>11. \A v \in Workers : v # w /\ work[v].at # "idle" => work[v].for # t
    <2> SUFFICES ASSUME NEW v \in Workers, v # w, work[v].at # "idle" PROVE work[v].for # t
      OBVIOUS
    <2>1. CASE UNCHANGED queue /\ work[w].at # "idle" /\ t = work[w].for
      BY <2>1 DEF Inv, Tasks
    <2>2. CASE 1 \in DOMAIN queue /\ t = queue[1]
      BY <2>2 DEF Inv, Tasks
    <2> QED
      BY <1>1, <2>1, <2>2
  <1>12. work'[w] = NoWork /\ \A v \in Workers : v # w => work'[v] = work[v]
    BY DEF Inv, Types
  <1>13. ASSUME NEW v \in Workers, v # w, work[v].at # "idle"
         PROVE  /\ work[v].for \in Task /\ OpenTask(work[v].for)'
                /\ \A j \in DOMAIN queue' : queue'[j] # work[v].for
                /\ \A x \in Workers : x # v => work'[x].for # work[v].for
                /\ work[v].at = "abort" => trouble'[work[v].for[1]] # {}
    <2>1. PICK s \in Task : s = work[v].for /\ OpenTask(s) /\ s # t
      BY <1>11, <1>13 DEF Inv, Tasks
    <2>2. OpenTask(s)'
      BY <1>7, <2>1
    <2>3. OpenTask(work[v].for)'
      BY <1>12, <1>13, <2>1, <2>2 DEF OpenTask
    <2>4. \A j \in DOMAIN queue' : queue'[j] # s
      BY <1>8, <1>13, <2>1 DEF Inv, Tasks
    <2>5. \A x \in Workers : x # v => work'[x].for # s
      BY <1>3, <1>12, <1>13, <2>1 DEF Inv, Tasks
    <2>6. work[v].at = "abort" => trouble'[s[1]] # {}
      <3> SUFFICES ASSUME work[v].at = "abort" PROVE trouble'[s[1]] # {}
        OBVIOUS
      <3>1. trouble[s[1]] # {}
        BY <2>1 DEF Inv, Tasks
      <3>2. s[1] \in Callers
        BY <2>1 DEF Task
      <3> QED
        BY <1>5, <3>1, <3>2
    <2> QED
      BY <2>1, <2>3, <2>4, <2>5, <2>6
  <1>14. Tasks'
    <2>1. ASSUME NEW v \in Workers
          PROVE  /\ IF work'[v].at = "idle" THEN work'[v] = NoWork
                    ELSE /\ work'[v].for \in Task /\ Open(call'[work'[v].for[1]], parts'[work'[v].for[1]], work'[v].for[2])
                         /\ \A j \in DOMAIN queue' : queue'[j] # work'[v].for
                         /\ \A x \in Workers : x # v => work'[x].for # work'[v].for
                 /\ work'[v].at = "abort" => trouble'[work'[v].for[1]] # {}
      <3>1. CASE v = w \/ work[v].at = "idle"
        <4>1. work'[v] = NoWork
          BY <1>12, <3>1 DEF Inv, Tasks
        <4> QED
          BY <1>3, <4>1
      <3>2. CASE v # w /\ work[v].at # "idle"
        BY <1>12, <1>13, <3>2 DEF OpenTask
      <3> QED
        BY <3>1, <3>2
    <2> QED
      BY <1>9, <1>10, <2>1 DEF Tasks, OpenTask
  <1>15. Progress(call[c], qs)
    <2>1. PICK k, ps : k = call[c] /\ ps = parts[c] /\ Progress(k, ps) /\ Open(k, ps, i)
      BY <1>6 DEF Inv, CallerOK, OpenTask
    <2>2. ps \in Seq(Part) /\ Marked(ps, i, qs, r, ps[i].interrupt)
      BY <2>1 DEF Inv, Types
    <2>3. k.at \in Parted => Laid(qs, k.size) /\ k.part <= Len(qs)
      <3>1. DOMAIN ps = 1 .. Len(ps) /\ Len(ps) \in Nat
        BY <2>2, PartsAre
      <3>2. k.at \in Parted => Laid(ps, k.size) /\ k.part <= Len(ps)
        BY <2>1 DEF Progress
      <3> QED
        BY <2>2, <3>1, <3>2 DEF Marked, Laid
    <2>4. /\ k.at \in Awaited /\ k.at \in Parted /\ k.part \in Nat
          /\ DOMAIN qs = DOMAIN ps /\ DOMAIN ps \subseteq Nat /\ i \in DOMAIN ps
      BY <2>1, <2>2, PartsAre DEF Open, Awaited, Parted, Inv, Types, Calls, Marked
    <2>5. \A j \in DOMAIN qs :
            /\ k.at = "create" \/ (k.at = "add" /\ j >= k.part) => qs[j].result = "none"
            /\ k.at = "complete" \/ (k.at = "collect" /\ j < k.part) => qs[j].result = "etag"
            /\ k.at = "drain" /\ j < k.part => qs[j].result # "none"
            /\ qs[j].interrupt => k.at \in {"interrupt", "drain"}
      <3>1. \A j \in DOMAIN ps : j # i => qs[j] = ps[j]
        BY <2>2 DEF Marked
      <3>2. qs[i].result = r /\ qs[i].interrupt = ps[i].interrupt
        BY <2>2 DEF Marked
      <3>3. /\ k.at # "create" /\ k.at # "complete"
            /\ k.at = "add" => i < k.part
            /\ k.at = "collect" => ~(i < k.part)
            /\ ps[i].interrupt => k.at \in {"interrupt", "drain"}
        BY <2>1, <2>4 DEF Open, Awaited, Progress
      <3>4. k.at = "add" => ~(i >= k.part)
        BY <2>4, <3>3
      <3>5. \A j \in DOMAIN ps :
              /\ k.at = "add" /\ j >= k.part => ps[j].result = "none"
              /\ k.at = "collect" /\ j < k.part => ps[j].result = "etag"
              /\ k.at = "drain" /\ j < k.part => ps[j].result # "none"
              /\ ps[j].interrupt => k.at \in {"interrupt", "drain"}
        BY <2>1 DEF Progress
      <3> QED
        BY <2>4, <3>1, <3>2, <3>3, <3>4, <3>5
    <2> QED
      BY <2>1, <2>3, <2>4, <2>5 DEF Progress
  <1>16. \A d \in Callers : CallerOK(call[d], parts[d], upload[d], trouble[d])'
    BY <1>5, <1>15 DEF Inv, CallerOK
  <1> QED
    BY <1>4, <1>14, <1>16 DEF Inv

(* The same without a result: w goes on with the task, or has lost it.      *)
LEMMA TaskStep ==
  ASSUME Inv, NEW w \in Workers, NEW t \in Task, NEW c \in Callers, NEW i, t = <<c, i>>,
         \/ work[w] = NoWork /\ queue # <<>> /\ t = Head(queue) /\ queue' = Tail(queue)
         \/ work[w].at # "idle" /\ t = work[w].for /\ UNCHANGED queue,
         NEW x \in Work, x = NoWork \/ (x.at # "idle" /\ x.for = t),
         NEW u \in Upload, NEW tr \in SUBSET Troubles, trouble[c] \subseteq tr, x.at = "abort" => tr # {},
         work' = [work EXCEPT ![w] = x], upload' = [upload EXCEPT ![c] = u], trouble' = [trouble EXCEPT ![c] = tr],
         UNCHANGED <<call, parts, object>>, crashed' \in BOOLEAN,
         Stored(call[c], parts[c], u), Reasons(call[c], parts[c], u, tr)
  PROVE  Inv'
  <1>1. /\ \A j \in DOMAIN queue : queue[j] \in Task
        /\ queue' \in Seq(Task)
        /\ \/ UNCHANGED queue /\ work[w].at # "idle" /\ t = work[w].for
           \/ /\ 1 \in DOMAIN queue /\ t = queue[1] /\ work[w] = NoWork
              /\ \A j \in DOMAIN queue' : j + 1 \in DOMAIN queue /\ j + 1 # 1 /\ queue'[j] = queue[j + 1]
    BY LenProperties, QueueTail DEF Inv, Types
  <1>2. DOMAIN queue \subseteq Nat /\ DOMAIN queue' \subseteq Nat
    BY <1>1, LenProperties DEF Inv, Types
  <1>3. NoWork.at = "idle" /\ NoWork.for = <<>> /\ <<>> \notin Task
    BY DEF NoWork, Task
  <1>4. Types'
    BY <1>1 DEF Inv, Types
  <1>5. \A d \in Callers : IF d = c THEN upload'[d] = u /\ trouble'[d] = tr
                          ELSE upload'[d] = upload[d] /\ trouble'[d] = trouble[d]
    BY DEF Inv, Types
  <1>6. OpenTask(t)
    <2>1. CASE UNCHANGED queue /\ work[w].at # "idle" /\ t = work[w].for
      BY <2>1 DEF Inv, Tasks
    <2>2. CASE 1 \in DOMAIN queue /\ t = queue[1]
      BY <2>2 DEF Inv, Tasks
    <2> QED
      BY <1>1, <2>1, <2>2
  <1>7. \A s : OpenTask(s) => Open(call'[s[1]], parts'[s[1]], s[2])
    BY DEF OpenTask
  <1>8. \A j \in DOMAIN queue' : /\ queue'[j] # t /\ queue'[j] \in Task
                                /\ \E l \in DOMAIN queue : queue'[j] = queue[l]
    <2>1. CASE UNCHANGED queue /\ work[w].at # "idle" /\ t = work[w].for
      BY <1>1, <2>1 DEF Inv, Tasks
    <2>2. CASE /\ 1 \in DOMAIN queue /\ t = queue[1]
               /\ \A j \in DOMAIN queue' : j + 1 \in DOMAIN queue /\ j + 1 # 1 /\ queue'[j] = queue[j + 1]
      <3>1. \A l \in DOMAIN queue : l # 1 => queue[l] # queue[1]
        BY <2>2 DEF Inv, Tasks, IsInjective
      <3> QED
        BY <1>1, <2>2, <3>1
    <2> QED
      BY <1>1, <2>1, <2>2
  <1>9. (\A j \in DOMAIN queue : OpenTask(queue[j]))'
    <2>1. \A l \in DOMAIN queue : Open(call'[queue[l][1]], parts'[queue[l][1]], queue[l][2])
      BY <1>7 DEF Inv, Tasks
    <2> QED
      BY <1>8, <2>1 DEF OpenTask
  <1>10. IsInjective(queue)'
    <2>1. IsInjective(queue)
      BY DEF Inv, Tasks
    <2> QED
      BY <1>1, <1>2, <2>1 DEF IsInjective
  <1>11. \A v \in Workers : v # w /\ work[v].at # "idle" => work[v].for # t
    <2> SUFFICES ASSUME NEW v \in Workers, v # w, work[v].at # "idle" PROVE work[v].for # t
      OBVIOUS
    <2>1. CASE UNCHANGED queue /\ work[w].at # "idle" /\ t = work[w].for
      BY <2>1 DEF Inv, Tasks
    <2>2. CASE 1 \in DOMAIN queue /\ t = queue[1]
      BY <2>2 DEF Inv, Tasks
    <2> QED
      BY <1>1, <2>1, <2>2
  <1>12. work'[w] = x /\ \A v \in Workers : v # w => work'[v] = work[v]
    BY DEF Inv, Types
  <1>13. ASSUME NEW v \in Workers, NEW y, y = work'[v]
         PROVE  /\ IF y.at = "idle" THEN y = NoWork
                   ELSE /\ y.for \in Task /\ Open(call'[y.for[1]], parts'[y.for[1]], y.for[2])
                        /\ \A j \in DOMAIN queue' : queue'[j] # y.for
                        /\ \A z \in Workers : z # v => work'[z].for # y.for
                /\ y.at = "abort" => trouble'[y.for[1]] # {}
    <2>1. CASE y = NoWork
      BY <1>3, <2>1
    <2>2. CASE v = w /\ y.at # "idle"
      <3>1. y.for = t /\ y = x
        BY <1>3, <1>12, <1>13, <2>2
      <3>2. \A z \in Workers : z # w => work'[z].for # t
        BY <1>3, <1>11, <1>12 DEF Inv, Tasks
      <3>3. t[1] = c
        OBVIOUS
      <3> QED
        BY <1>5, <1>6, <1>7, <1>8, <2>2, <3>1, <3>2, <3>3
    <2>3. CASE v # w /\ y.at # "idle"
      <3>1. y = work[v] /\ y.for \in Task /\ OpenTask(y.for) /\ y.for # t
        BY <1>11, <1>12, <1>13, <2>3 DEF Inv, Tasks
      <3>2. \A j \in DOMAIN queue' : queue'[j] # y.for
        BY <1>8, <2>3, <3>1 DEF Inv, Tasks
      <3>3. \A z \in Workers : z # v => work'[z].for # y.for
        BY <1>3, <1>12, <2>3, <3>1 DEF Inv, Tasks
      <3>4. y.at = "abort" => trouble'[y.for[1]] # {}
        <4>1. y.at = "abort" => trouble[y.for[1]] # {}
          BY <3>1 DEF Inv, Tasks
        <4>2. y.for[1] \in Callers
          BY <3>1 DEF Task
        <4> QED
          BY <1>5, <4>1, <4>2
      <3> QED
        BY <1>7, <2>3, <3>1, <3>2, <3>3, <3>4
    <2>4. y.at = "idle" => y = NoWork
      BY <1>12, <1>13 DEF Inv, Tasks
    <2> QED
      BY <2>1, <2>2, <2>3, <2>4
  <1>14. Tasks'
    BY <1>9, <1>10, <1>13 DEF Tasks, OpenTask
  <1>15. \A d \in Callers : CallerOK(call[d], parts[d], upload[d], trouble[d])'
    BY <1>5 DEF Inv, CallerOK
  <1> QED
    BY <1>4, <1>14, <1>15 DEF Inv

------------------------------------------------------------------------------
(* The caller's steps                                                       *)

(* what is known of the caller c                                            *)
Is(c, k, ps, u, tr, o) ==
  /\ k = call[c] /\ ps = parts[c] /\ u = upload[c] /\ tr = trouble[c] /\ o = object[c]
  /\ k \in Calls /\ ps \in Seq(Part) /\ u \in Upload /\ tr \in SUBSET Troubles /\ o \in Seq(Nat)
  /\ CallerOK(k, ps, u, tr)
  /\ call = [call EXCEPT ![c] = k] /\ parts = [parts EXCEPT ![c] = ps] /\ upload = [upload EXCEPT ![c] = u]
  /\ trouble = [trouble EXCEPT ![c] = tr] /\ object = [object EXCEPT ![c] = o]

LEMMA Known ==
  ASSUME Inv, NEW c \in Callers
  PROVE  \E k, ps, u, tr, o : Is(c, k, ps, u, tr, o)
  <1>1. PICK k, ps, u, tr, o : k = call[c] /\ ps = parts[c] /\ u = upload[c] /\ tr = trouble[c] /\ o = object[c]
    OBVIOUS
  <1>2. k \in Calls /\ ps \in Seq(Part) /\ u \in Upload /\ tr \in SUBSET Troubles /\ o \in Seq(Nat)
    BY <1>1 DEF Inv, Types
  <1>3. /\ call = [call EXCEPT ![c] = k] /\ parts = [parts EXCEPT ![c] = ps] /\ upload = [upload EXCEPT ![c] = u]
        /\ trouble = [trouble EXCEPT ![c] = tr] /\ object = [object EXCEPT ![c] = o]
    BY <1>1 DEF Inv, Types
  <1> QED
    BY <1>1, <1>2, <1>3 DEF Is, Inv

(* The call returns: nothing of it is open.                                 *)
LEMMA AnswerStep ==
  ASSUME Inv, NEW c \in Callers, NEW k, NEW ps, NEW u, NEW tr, NEW o, Is(c, k, ps, u, tr, o),
         NEW a \in {"ok", "error"}, Answer(c, a), \A i : ~Open(k, ps, i),
         NEW u2 \in Upload, NEW tr2 \in SUBSET Troubles, NEW o2 \in Seq(Nat), tr \subseteq tr2,
         upload' = [upload EXCEPT ![c] = u2], trouble' = [trouble EXCEPT ![c] = tr2], object' = [object EXCEPT ![c] = o2],
         a = "error" => tr2 # {}, u2.state = "open" => tr2 \cap {"abort", "create", "complete", "read"} # {},
         UNCHANGED <<queue, work, crashed>>
  PROVE  Inv'
  <1>0. k = call[c] /\ k \in Calls
    BY DEF Is
  <1>1. PICK l, m : l = call[c] /\ m = [l EXCEPT !.at = "done", !.part = 1, !.answer = a] /\ call' = [call EXCEPT ![c] = m]
    BY DEF Answer
  <1>2. m \in Calls /\ m.at = "done" /\ m.part = 1 /\ m.answer = a
    BY <1>0, <1>1, CallAnswered
  <1>3. PICK qs : qs = <<>> /\ parts' = [parts EXCEPT ![c] = qs] /\ qs \in Seq(Part) /\ DOMAIN qs = {}
    <2>1. PICK qs : qs = <<>> /\ parts' = [parts EXCEPT ![c] = qs]
      BY DEF Answer
    <2>2. qs \in Seq(Part) /\ DOMAIN qs = {}
      BY <2>1, EmptySeq
    <2> QED
      BY <2>1, <2>2
  <1>4. CallerOK(m, qs, u2, tr2)
    BY <1>2, <1>3 DEF CallerOK, Progress, Stored, Reasons, Parted
  <1> QED
    BY <1>1, <1>2, <1>3, <1>4, CallerStep DEF Is

LEMMA BeginInv ==
  ASSUME Inv, NEW c \in Callers, NEW size \in Sizes, NEW directory \in BOOLEAN, Begin(c, size, directory),
         UNCHANGED crashed
  PROVE  Inv'
  <1>1. PICK k, ps, u, tr, o : Is(c, k, ps, u, tr, o)
    BY Known
  <1>2. PICK n, a : /\ n = UnitCount(size, PartSize) /\ a = (IF n > 1 THEN "create" ELSE IF directory THEN "put" ELSE "read")
                    /\ n \in Nat
    BY UnitCountIs, SizesAreSizes
  <1>3. PICK l, m : l = call[c] /\ m = [l EXCEPT !.size = size, !.at = a] /\ call' = [call EXCEPT ![c] = m]
    BY <1>2 DEF Begin
  <1>4. PICK qs, y, v : /\ qs = (IF n > 1 THEN FileParts(size) ELSE <<>>) /\ parts' = [parts EXCEPT ![c] = qs]
                     /\ y = upload[c] /\ v = [y EXCEPT !.stored = IF n > 1 THEN [i \in 1 .. n |-> <<>>] ELSE <<>>]
                     /\ upload' = [upload EXCEPT ![c] = v]
    BY <1>2 DEF Begin
  <1>5. UNCHANGED <<queue, work, object, trouble>> /\ k.at = "idle"
    BY <1>1 DEF Begin, Is
  <1>6. m = [at |-> a, size |-> size, part |-> k.part, tries |-> k.tries, answer |-> k.answer]
    BY <1>1, <1>3 DEF Is, Calls
  <1>7. m \in Calls /\ m.at = a /\ m.size = size /\ m.part = k.part /\ m.answer = k.answer
    BY <1>1, <1>2, <1>6 DEF Is, Calls, Places
  <1>8. k.part = 1 /\ k.answer = "none" /\ u.state = "none"
    BY <1>1, <1>5 DEF Is, CallerOK, Progress, Stored, Parted
  <1>9. qs \in Seq(Part) /\ (n > 1 => Laid(qs, size) /\ Len(qs) = n) /\ (n <= 1 => qs = <<>>)
        /\ \A i \in DOMAIN qs : qs[i].result = "none" /\ ~qs[i].interrupt
    BY <1>2, <1>4, FilePartsLaid, SizesAreSizes, EmptySeq
  <1>10. PICK st : st = (IF n > 1 THEN [i \in 1 .. n |-> <<>>] ELSE <<>>)
    OBVIOUS
  <1>11. st \in Seq(Seq(Nat)) /\ (n > 1 => Len(st) = n)
    <2>1. <<>> \in Seq(Nat) /\ <<>> \in Seq(Seq(Nat))
      BY EmptySeq
    <2>2. CASE n > 1
      <3>1. st \in [1 .. n -> Seq(Nat)]
        BY <1>10, <2>1, <2>2
      <3> QED
        BY <1>2, <3>1, <2>2, SeqDef, LenProperties
    <2>3. CASE ~(n > 1)
      BY <1>10, <2>1, <2>3
    <2> QED
      BY <2>2, <2>3
  <1>12. v = [state |-> u.state, stored |-> st]
    BY <1>1, <1>4, <1>10 DEF Is, Upload
  <1>13. v \in Upload /\ v.state = "none" /\ v.stored = st
    BY <1>1, <1>8, <1>11, <1>12 DEF Is, Upload
  <1>14. CallerOK(m, qs, v, tr)
    <2>1. Progress(m, qs)
      BY <1>2, <1>7, <1>8, <1>9 DEF Progress, Parted
    <2>2. Stored(m, qs, v)
      BY <1>2, <1>7, <1>9, <1>11, <1>13 DEF Stored, Parted
    <2>3. Reasons(m, qs, v, tr)
      BY <1>2, <1>7, <1>8, <1>9, <1>13 DEF Reasons
    <2> QED
      BY <2>1, <2>2, <2>3 DEF CallerOK
  <1>15. \A i : ~Open(k, ps, i)
    BY <1>5 DEF Open, Awaited
  <1>16. object' = [object EXCEPT ![c] = o] /\ trouble' = [trouble EXCEPT ![c] = tr]
    BY <1>1, <1>5 DEF Is
  <1> QED
    BY <1>1, <1>3, <1>4, <1>5, <1>7, <1>9, <1>13, <1>14, <1>15, <1>16, CallerStep DEF Is

LEMMA GotoIs ==
  ASSUME NEW c, NEW k, NEW ps, NEW u, NEW tr, NEW o, Is(c, k, ps, u, tr, o), NEW a \in Places, Goto(c, a)
  PROVE  \E m \in Calls : /\ call' = [call EXCEPT ![c] = m] /\ parts' = [parts EXCEPT ![c] = ps]
                          /\ m.at = a /\ m.part = 1 /\ m.size = k.size /\ m.answer = k.answer
  <1>1. k = call[c] /\ k \in Calls /\ parts = [parts EXCEPT ![c] = ps]
    BY DEF Is
  <1>2. PICK l, m : l = call[c] /\ m = [l EXCEPT !.at = a, !.part = 1] /\ call' = [call EXCEPT ![c] = m]
    BY DEF Goto
  <1>3. m \in Calls /\ m.at = a /\ m.part = 1 /\ m.size = k.size /\ m.answer = k.answer
    <2>1. m = [at |-> a, size |-> k.size, part |-> 1, tries |-> k.tries, answer |-> k.answer]
      BY <1>1, <1>2 DEF Calls
    <2> QED
      BY <1>1, <2>1 DEF Calls
  <1>4. parts' = [parts EXCEPT ![c] = ps]
    BY <1>1 DEF Goto
  <1> QED
    BY <1>2, <1>3, <1>4

LEMMA NextPartIs ==
  ASSUME NEW c, NEW k, NEW ps, NEW u, NEW tr, NEW o, Is(c, k, ps, u, tr, o), NEW a \in Places, NextPart(c, a)
  PROVE  \E m \in Calls : /\ call' = [call EXCEPT ![c] = m] /\ parts' = [parts EXCEPT ![c] = ps]
                          /\ m.size = k.size /\ m.answer = k.answer
                          /\ IF k.part < Len(ps) THEN m.at = k.at /\ m.part = k.part + 1 ELSE m.at = a /\ m.part = 1
  <1>1. k = call[c] /\ ps = parts[c] /\ k \in Calls /\ parts = [parts EXCEPT ![c] = ps]
    BY DEF Is
  <1>2. CASE k.part < Len(ps)
    <2>1. PICK l, m : l = call[c] /\ m = [l EXCEPT !.part = @ + 1] /\ call' = [call EXCEPT ![c] = m]
      BY <1>1, <1>2 DEF NextPart
    <2>2. m \in Calls /\ m.at = k.at /\ m.part = k.part + 1 /\ m.size = k.size /\ m.answer = k.answer
      BY <1>1, <2>1, CallNext
    <2>3. parts' = [parts EXCEPT ![c] = ps]
      BY <1>1, <1>2 DEF NextPart
    <2> QED
      BY <1>2, <2>1, <2>2, <2>3
  <1>3. CASE ~(k.part < Len(ps))
    <2>1. Goto(c, a)
      BY <1>1, <1>3 DEF NextPart
    <2> QED
      BY <1>3, <2>1, GotoIs
  <1> QED
    BY <1>2, <1>3

LEMMA FailsIs ==
  ASSUME NEW c, NEW k, NEW ps, NEW u, NEW tr, NEW o, Is(c, k, ps, u, tr, o), NEW x \in Troubles, Fails(c, x)
  PROVE  \E r \in SUBSET Troubles : r = tr \cup {x} /\ trouble' = [trouble EXCEPT ![c] = r]
  BY DEF Is, Fails

LEMMA CannotReadInv ==
  ASSUME Inv, NEW c \in Callers, CannotRead(c), UNCHANGED crashed
  PROVE  Inv'
  <1>1. PICK k, ps, u, tr, o : Is(c, k, ps, u, tr, o)
    BY Known
  <1>2. PICK r \in SUBSET Troubles : r = tr \cup {"read"} /\ trouble' = [trouble EXCEPT ![c] = r]
    BY <1>1, FailsIs DEF CannotRead, Troubles
  <1>3. \A i : ~Open(k, ps, i)
    BY <1>1 DEF CannotRead, Is, Open, Awaited
  <1>4. upload' = [upload EXCEPT ![c] = u] /\ object' = [object EXCEPT ![c] = o] /\ u \in Upload /\ o \in Seq(Nat)
    BY <1>1 DEF CannotRead, Is
  <1>5. Answer(c, "error") /\ UNCHANGED <<queue, work, crashed>>
    BY DEF CannotRead
  <1>6. tr \subseteq r /\ r # {} /\ r \cap {"abort", "create", "complete", "read"} # {}
    BY <1>2
  <1> QED
    BY <1>1, <1>2, <1>3, <1>4, <1>5, <1>6, AnswerStep

LEMMA MakeStreamInv ==
  ASSUME Inv, NEW c \in Callers, MakeStream(c), UNCHANGED crashed
  PROVE  Inv'
  <1>1. PICK k, ps, u, tr, o : Is(c, k, ps, u, tr, o)
    BY Known
  <1>2. PICK m \in Calls : /\ call' = [call EXCEPT ![c] = m] /\ parts' = [parts EXCEPT ![c] = ps]
                           /\ m.at = "put" /\ m.part = 1 /\ m.size = k.size /\ m.answer = k.answer
    BY <1>1, GotoIs DEF MakeStream, Places
  <1>3. k.at = "read" /\ UNCHANGED <<queue, work, object, upload, trouble>>
    BY <1>1 DEF MakeStream, Is
  <1>4. CallerOK(m, ps, u, tr)
    BY <1>1, <1>2, <1>3 DEF Is, CallerOK, Progress, Stored, Reasons, Parted
  <1>5. \A i : ~Open(k, ps, i)
    BY <1>3 DEF Open, Awaited
  <1> QED
    BY <1>1, <1>2, <1>3, <1>4, <1>5, CallerStep DEF Is

LEMMA UploadSimpleInv ==
  ASSUME Inv, NEW c \in Callers, UploadSimple(c), UNCHANGED crashed
  PROVE  Inv'
  <1>1. PICK k, ps, u, tr, o : Is(c, k, ps, u, tr, o)
    BY Known
  <1>2. PICK oc \in Outcomes :
          /\ object' = IF oc.done THEN [object EXCEPT ![c] = Content(0, call[c].size)] ELSE object
          /\ IF oc.says = "ok" THEN UNCHANGED trouble ELSE Fails(c, "put")
          /\ IF Again(oc, call[c].tries)
             THEN call' = [call EXCEPT ![c].tries = @ + 1] /\ UNCHANGED parts
             ELSE Answer(c, IF oc.says = "ok" THEN "ok" ELSE "error")
    BY DEF UploadSimple
  <1>3. k.at = "put" /\ UNCHANGED <<queue, work, upload, crashed>>
    BY <1>1 DEF UploadSimple, Is
  <1>4. PICK p \in Seq(Nat) : object' = [object EXCEPT ![c] = p]
    <2>1. k.size \in Nat /\ k = call[c]
      BY <1>1, SizesAreSizes DEF Is, Calls
    <2>2. PICK q \in Seq(Nat) : q = Content(0, call[c].size)
      BY <2>1, ContentIs
    <2> QED
      BY <1>1, <1>2, <2>2 DEF Is
  <1>5. PICK r \in SUBSET Troubles : trouble' = [trouble EXCEPT ![c] = r] /\ tr \subseteq r /\ (oc.says # "ok" => r # {})
    <2>1. CASE oc.says = "ok"
      BY <1>1, <1>2, <2>1 DEF Is
    <2>2. CASE oc.says # "ok"
      <3>0. "put" \in Troubles /\ Fails(c, "put")
        BY <1>2, <2>2 DEF Troubles
      <3>1. PICK r \in SUBSET Troubles : r = tr \cup {"put"} /\ trouble' = [trouble EXCEPT ![c] = r]
        BY <1>1, <3>0 DEF Is, Fails
      <3>2. tr \subseteq r /\ r # {}
        BY <3>1
      <3> QED
        BY <3>1, <3>2
    <2> QED
      BY <2>1, <2>2
  <1>6. \A i : ~Open(k, ps, i)
    BY <1>3 DEF Open, Awaited
  <1>7. upload' = [upload EXCEPT ![c] = u] /\ u \in Upload /\ u.state = "none"
    BY <1>1, <1>3 DEF Is, CallerOK, Stored
  <1>8. CASE Again(oc, call[c].tries)
    <2>1. PICK l, m : l = call[c] /\ m = [l EXCEPT !.tries = @ + 1] /\ call' = [call EXCEPT ![c] = m]
      BY <1>2, <1>8
    <2>2. l = k /\ k \in Calls
      BY <1>1, <2>1 DEF Is
    <2>3. PICK n \in Nat : n = k.tries + 1
      BY <2>2 DEF Calls
    <2>4. m = [at |-> k.at, size |-> k.size, part |-> k.part, tries |-> n, answer |-> k.answer]
      BY <2>1, <2>2, <2>3 DEF Calls
    <2>5. m \in Calls /\ m.at = k.at /\ m.size = k.size /\ m.part = k.part /\ m.answer = k.answer
      BY <2>2, <2>3, <2>4 DEF Calls
    <2>6. CallerOK(m, ps, u, r)
      BY <1>1, <1>3, <1>5, <2>5 DEF Is, CallerOK, Progress, Stored, Reasons, Parted
    <2>7. parts' = [parts EXCEPT ![c] = ps]
      BY <1>1, <1>2, <1>8 DEF Is
    <2> QED
      BY <1>1, <1>3, <1>4, <1>5, <1>6, <1>7, <2>1, <2>5, <2>6, <2>7, CallerStep DEF Is
  <1>9. CASE ~Again(oc, call[c].tries)
    <2>1. PICK a \in {"ok", "error"} : Answer(c, a) /\ (a = "error" => oc.says # "ok")
      BY <1>2, <1>9
    <2> QED
      BY <1>1, <1>3, <1>4, <1>5, <1>6, <1>7, <2>1, AnswerStep
  <1> QED
    BY <1>8, <1>9

LEMMA CreateInv ==
  ASSUME Inv, NEW c \in Callers, Create(c), UNCHANGED crashed
  PROVE  Inv'
  <1>1. PICK k, ps, u, tr, o : Is(c, k, ps, u, tr, o)
    BY Known
  <1>2. PICK oc \in Outcomes :
          /\ upload' = IF oc.done THEN [upload EXCEPT ![c].state = "open"] ELSE upload
          /\ IF oc.says = "ok" THEN Goto(c, "add") /\ UNCHANGED trouble ELSE Answer(c, "error") /\ Fails(c, "create")
    BY DEF Create
  <1>3. k.at = "create" /\ UNCHANGED <<queue, work, object, crashed>>
    BY <1>1 DEF Create, Is
  <1>4. PICK v \in Upload : upload' = [upload EXCEPT ![c] = v] /\ v.stored = u.stored /\ v.state \in {"none", "open"}
    <2>1. u \in Upload /\ u.state = "none" /\ u = upload[c] /\ upload = [upload EXCEPT ![c] = u]
      BY <1>1, <1>3 DEF Is, CallerOK, Stored
    <2>2. CASE oc.done
      <3>1. PICK w, v : w = upload[c] /\ v = [w EXCEPT !.state = "open"] /\ upload' = [upload EXCEPT ![c] = v]
        BY <1>2, <2>2
      <3>2. v = [state |-> "open", stored |-> u.stored]
        BY <2>1, <3>1 DEF Upload
      <3>3. v \in Upload /\ v.stored = u.stored /\ v.state = "open"
        BY <2>1, <3>2 DEF Upload
      <3> QED
        BY <3>1, <3>3
    <2>3. CASE ~oc.done
      BY <1>2, <2>1, <2>3
    <2> QED
      BY <2>2, <2>3
  <1>5. \A i : ~Open(k, ps, i)
    BY <1>3 DEF Open, Awaited
  <1>6. object' = [object EXCEPT ![c] = o] /\ o \in Seq(Nat) /\ tr \in SUBSET Troubles
    BY <1>1, <1>3 DEF Is
  <1>7. CASE oc.says = "ok"
    <2>1. PICK m \in Calls : /\ call' = [call EXCEPT ![c] = m] /\ parts' = [parts EXCEPT ![c] = ps]
                             /\ m.at = "add" /\ m.part = 1 /\ m.size = k.size /\ m.answer = k.answer
      BY <1>1, <1>2, <1>7, GotoIs DEF Places
    <2>2. trouble' = [trouble EXCEPT ![c] = tr]
      BY <1>1, <1>2, <1>7 DEF Is
    <2>3. Laid(ps, k.size) /\ Len(ps) \in Nat /\ Len(ps) > 0 /\ ps \in Seq(Part)
          /\ \A i \in DOMAIN ps : ps[i].result = "none" /\ ~ps[i].interrupt
      BY <1>1, <1>3, PartsAre DEF Is, CallerOK, Progress, Parted, Laid
    <2>4. CallerOK(m, ps, v, tr)
      <3>1. Progress(m, ps)
        BY <1>1, <1>3, <2>1, <2>3 DEF Is, CallerOK, Progress, Parted
      <3>2. Stored(m, ps, v)
        BY <1>1, <1>3, <1>4, <2>1, <2>3 DEF Is, CallerOK, Stored, Parted
      <3>3. Reasons(m, ps, v, tr)
        BY <1>1, <1>3, <2>1, <2>3 DEF Is, CallerOK, Progress, Reasons
      <3> QED
        BY <3>1, <3>2, <3>3 DEF CallerOK
    <2> QED
      BY <1>1, <1>3, <1>4, <1>5, <1>6, <2>1, <2>2, <2>3, <2>4, CallerStep DEF Is
  <1>8. CASE oc.says # "ok"
    <2>1. Answer(c, "error") /\ Fails(c, "create")
      BY <1>2, <1>8
    <2>2. PICK r \in SUBSET Troubles : r = tr \cup {"create"} /\ trouble' = [trouble EXCEPT ![c] = r]
      BY <1>1, <2>1, FailsIs DEF Troubles
    <2>3. tr \subseteq r /\ r # {} /\ r \cap {"abort", "create", "complete", "read"} # {}
      BY <2>2
    <2>4. upload' = [upload EXCEPT ![c] = v] /\ UNCHANGED <<queue, work, crashed>>
      BY <1>3, <1>4
    <2> QED
      BY <1>1, <1>5, <1>6, <2>1, <2>2, <2>3, <2>4, AnswerStep
  <1> QED
    BY <1>7, <1>8

LEMMA AddTaskInv ==
  ASSUME Inv, NEW c \in Callers, AddTask(c), UNCHANGED crashed
  PROVE  Inv'
  <1>1. PICK k, ps, u, tr, o : Is(c, k, ps, u, tr, o)
    BY Known
  <1>2. PICK m \in Calls : /\ call' = [call EXCEPT ![c] = m] /\ parts' = [parts EXCEPT ![c] = ps]
                           /\ m.size = k.size /\ m.answer = k.answer
                           /\ IF k.part < Len(ps) THEN m.at = k.at /\ m.part = k.part + 1 ELSE m.at = "collect" /\ m.part = 1
    BY <1>1, NextPartIs DEF AddTask, Places
  <1>3. PICK t : t = <<c, k.part>> /\ queue' = Append(queue, t)
    BY <1>1 DEF AddTask, Is
  <1>4. k.at = "add" /\ k = call[c] /\ ps = parts[c] /\ UNCHANGED <<work, object, upload, trouble, crashed>>
    BY <1>1 DEF AddTask, Is
  <1>5. k.part \in Nat \ {0} /\ k.part <= Len(ps) /\ Len(ps) \in Nat /\ DOMAIN ps = 1 .. Len(ps) /\ ps \in Seq(Part)
    BY <1>1, <1>4, PartsAre DEF Is, CallerOK, Progress, Parted, Calls
  <1>6. k.part \in DOMAIN ps /\ ps[k.part].result = "none" /\ Laid(ps, k.size)
    BY <1>1, <1>4, <1>5 DEF Is, CallerOK, Progress, Parted
  <1>7. t \in Task /\ queue' \in Seq(Task) /\ Len(queue) \in Nat /\ DOMAIN queue = 1 .. Len(queue)
        /\ DOMAIN queue' = 1 .. Len(queue) + 1 /\ queue'[Len(queue) + 1] = t
        /\ \A i \in DOMAIN queue : queue'[i] = queue[i] /\ queue[i] \in Task
    <2>1. t \in Task
      BY <1>3, <1>5 DEF Task
    <2> QED
      BY <1>3, <2>1, QueueAppend, LenProperties DEF Inv, Types
  <1>8. parts' = parts
    BY <1>1, <1>2 DEF Is
  <1>9. Types'
    BY <1>2, <1>4, <1>7, <1>8 DEF Inv, Types
  <1>10. \A d \in Callers : call'[d] = IF d = c THEN m ELSE call[d]
    BY <1>2 DEF Inv, Types
  <1>11. \A i : Open(k, ps, i) => Open(m, ps, i) /\ i < k.part
    <2> SUFFICES ASSUME NEW i, Open(k, ps, i) PROVE Open(m, ps, i) /\ i < k.part
      OBVIOUS
    <2>1. i \in DOMAIN ps /\ i \in Nat /\ i < k.part /\ ps[i].result = "none"
      BY <1>4, <1>5 DEF Open
    <2> QED
      BY <1>2, <1>4, <1>5, <2>1 DEF Open, Awaited
  <1>12. Open(m, ps, k.part)
    BY <1>2, <1>4, <1>5, <1>6 DEF Open, Awaited
  <1>13. \A s \in Task : OpenTask(s) => s # t /\ Open(call'[s[1]], parts'[s[1]], s[2])
    <2> SUFFICES ASSUME NEW s \in Task, OpenTask(s)
                 PROVE  s # t /\ Open(call'[s[1]], parts'[s[1]], s[2])
      OBVIOUS
    <2>1. PICK d \in Callers, i \in Nat : s = <<d, i>>
      BY DEF Task
    <2>2. CASE d = c
      <3>1. Open(k, ps, i)
        BY <1>4, <2>1, <2>2 DEF OpenTask
      <3> QED
        BY <1>3, <1>4, <1>5, <1>8, <1>10, <1>11, <2>1, <2>2, <3>1
    <2>3. CASE d # c
      BY <1>3, <1>8, <1>10, <2>1, <2>3 DEF OpenTask
    <2> QED
      BY <2>2, <2>3
  <1>14. Open(call'[t[1]], parts'[t[1]], t[2])
    BY <1>3, <1>4, <1>8, <1>10, <1>12
  <1>15. \A i \in DOMAIN queue' : i # Len(queue) + 1 => i \in DOMAIN queue /\ queue'[i] = queue[i] /\ queue'[i] # t
    BY <1>7, <1>13 DEF Inv, Tasks
  <1>16. IsInjective(queue')
    <2>1. IsInjective(queue)
      BY DEF Inv, Tasks
    <2> QED
      BY <1>7, <1>15, <2>1 DEF IsInjective
  <1>17. \A i \in DOMAIN queue' : Open(call'[queue'[i][1]], parts'[queue'[i][1]], queue'[i][2])
    <2>1. \A i \in DOMAIN queue : OpenTask(queue[i]) /\ queue[i] \in Task
      BY <1>7 DEF Inv, Tasks
    <2> QED
      BY <1>7, <1>13, <1>14, <1>15, <2>1
  <1>18. \A w \in Workers :
           IF work[w].at = "idle" THEN work[w] = NoWork
           ELSE /\ work[w].for \in Task /\ Open(call'[work[w].for[1]], parts'[work[w].for[1]], work[w].for[2])
                /\ \A i \in DOMAIN queue' : queue'[i] # work[w].for
    <2> SUFFICES ASSUME NEW w \in Workers
                 PROVE  IF work[w].at = "idle" THEN work[w] = NoWork
                        ELSE /\ work[w].for \in Task /\ Open(call'[work[w].for[1]], parts'[work[w].for[1]], work[w].for[2])
                             /\ \A i \in DOMAIN queue' : queue'[i] # work[w].for
      OBVIOUS
    <2>1. CASE work[w].at = "idle"
      BY <2>1 DEF Inv, Tasks
    <2>2. CASE work[w].at # "idle"
      <3>1. PICK s \in Task : s = work[w].for /\ OpenTask(s) /\ \A i \in DOMAIN queue : queue[i] # s
        BY <2>2 DEF Inv, Tasks
      <3> QED
        BY <1>7, <1>13, <1>15, <2>2, <3>1
    <2> QED
      BY <2>1, <2>2
  <1>19. Tasks'
    BY <1>4, <1>16, <1>17, <1>18 DEF Inv, Tasks, OpenTask
  <1>20. CallerOK(m, ps, u, tr)
    <2>1. Progress(m, ps)
      <3>1. m.at \in {"add", "collect"} /\ m.part <= Len(ps) /\ m.answer = "none"
        BY <1>1, <1>2, <1>4, <1>5 DEF Is, CallerOK, Progress, Calls
      <3>2. \A i \in DOMAIN ps : ~ps[i].interrupt /\ (i >= k.part => ps[i].result = "none")
        BY <1>1, <1>4 DEF Is, CallerOK, Progress
      <3>3. \A i \in DOMAIN ps : m.at = "add" /\ i >= m.part => ps[i].result = "none"
        BY <1>2, <1>5, <3>2
      <3>4. \A i \in DOMAIN ps : m.at = "collect" => ~(i < m.part)
        BY <1>2, <1>4, <1>5
      <3> QED
        BY <1>2, <1>6, <3>1, <3>2, <3>3, <3>4 DEF Progress, Parted
    <2>2. Stored(m, ps, u)
      BY <1>1, <1>2, <1>4 DEF Is, CallerOK, Stored, Parted
    <2>3. Reasons(m, ps, u, tr)
      BY <1>1, <1>2, <1>4 DEF Is, CallerOK, Reasons
    <2> QED
      BY <2>1, <2>2, <2>3 DEF CallerOK
  <1>21. \A d \in Callers : CallerOK(call'[d], parts'[d], upload'[d], trouble'[d])
    BY <1>1, <1>4, <1>8, <1>10, <1>20 DEF Is, Inv
  <1> QED
    BY <1>9, <1>19, <1>21 DEF Inv

LEMMA CollectInv ==
  ASSUME Inv, NEW c \in Callers, Collect(c), UNCHANGED crashed
  PROVE  Inv'
  <1>1. PICK k, ps, u, tr, o : Is(c, k, ps, u, tr, o)
    BY Known
  <1>2. k.at = "collect" /\ UNCHANGED <<queue, work, object, upload, trouble, crashed>>
    BY <1>1 DEF Collect, Is
  <1>3. k.part \in Nat \ {0} /\ k.part <= Len(ps) /\ Len(ps) \in Nat /\ DOMAIN ps = 1 .. Len(ps) /\ ps \in Seq(Part)
        /\ k.part \in DOMAIN ps /\ Laid(ps, k.size) /\ k.answer = "none"
    BY <1>1, <1>2, PartsAre DEF Is, CallerOK, Progress, Parted, Calls
  <1>4. /\ trouble' = [trouble EXCEPT ![c] = tr] /\ upload' = [upload EXCEPT ![c] = u] /\ object' = [object EXCEPT ![c] = o]
        /\ u \in Upload /\ tr \in SUBSET Troubles /\ o \in Seq(Nat) /\ trouble[c] \subseteq tr
        /\ k = call[c] /\ ps = parts[c]
    BY <1>1, <1>2 DEF Is
  <1>5. \A i : Open(k, ps, i) => i \in DOMAIN ps /\ ps[i].result = "none"
    BY DEF Open
  <1>6. CASE ps[k.part].result = "etag" /\ NextPart(c, "complete")
    <2>1. PICK m \in Calls : /\ call' = [call EXCEPT ![c] = m] /\ parts' = [parts EXCEPT ![c] = ps]
                             /\ m.size = k.size /\ m.answer = k.answer
                             /\ IF k.part < Len(ps) THEN m.at = k.at /\ m.part = k.part + 1 ELSE m.at = "complete" /\ m.part = 1
      BY <1>1, <1>6, NextPartIs DEF Places
    <2>2. \A i \in DOMAIN ps : ~ps[i].interrupt /\ (i < k.part => ps[i].result = "etag")
      BY <1>1, <1>2 DEF Is, CallerOK, Progress
    <2>3. \A i \in DOMAIN ps : m.at = "complete" \/ (m.at = "collect" /\ i < m.part) => ps[i].result = "etag"
      <3> SUFFICES ASSUME NEW i \in DOMAIN ps, m.at = "complete" \/ (m.at = "collect" /\ i < m.part)
                   PROVE  ps[i].result = "etag"
        OBVIOUS
      <3>1. i <= k.part
        BY <1>2, <1>3, <2>1
      <3>2. i < k.part \/ i = k.part
        BY <1>3, <3>1
      <3> QED
        BY <1>6, <2>2, <3>2
    <2>4. m.at \in {"collect", "complete"} /\ m.part <= Len(ps)
      BY <1>2, <1>3, <2>1
    <2>5. Progress(m, ps)
      BY <1>3, <2>1, <2>2, <2>3, <2>4 DEF Progress, Parted
    <2>6. Stored(m, ps, u)
      BY <1>1, <1>2, <2>4 DEF Is, CallerOK, Stored, Parted
    <2>7. Reasons(m, ps, u, tr)
      BY <1>1, <1>2, <2>1, <2>4 DEF Is, CallerOK, Reasons
    <2>8. \A i : Open(k, ps, i) => Open(m, ps, i)
      <3> SUFFICES ASSUME NEW i, Open(k, ps, i) PROVE Open(m, ps, i)
        OBVIOUS
      <3>1. m.at = "collect"
        BY <1>5, <2>3, <2>4
      <3> QED
        BY <1>5, <3>1 DEF Open, Awaited
    <2>9. CallerOK(m, ps, u, tr)
      BY <2>5, <2>6, <2>7 DEF CallerOK
    <2> QED
      BY <1>2, <1>3, <1>4, <2>1, <2>8, <2>9, CallerStep
  <1>7. CASE ps[k.part].result = "bad" /\ Goto(c, "interrupt")
    <2>1. PICK m \in Calls : /\ call' = [call EXCEPT ![c] = m] /\ parts' = [parts EXCEPT ![c] = ps]
                             /\ m.at = "interrupt" /\ m.part = 1 /\ m.size = k.size /\ m.answer = k.answer
      BY <1>1, <1>7, GotoIs DEF Places
    <2>2. CallerOK(m, ps, u, tr)
      <3>1. Progress(m, ps)
        BY <1>1, <1>2, <1>3, <2>1 DEF Is, CallerOK, Progress, Parted
      <3>2. Stored(m, ps, u)
        BY <1>1, <1>2, <2>1 DEF Is, CallerOK, Stored, Parted
      <3>3. Reasons(m, ps, u, tr)
        BY <1>1, <1>2, <1>3, <1>7, <2>1 DEF Is, CallerOK, Reasons
      <3> QED
        BY <3>1, <3>2, <3>3 DEF CallerOK
    <2>3. \A i : Open(k, ps, i) => Open(m, ps, i)
      BY <2>1 DEF Open, Awaited
    <2> QED
      BY <1>2, <1>3, <1>4, <2>1, <2>2, <2>3, CallerStep
  <1> QED
    BY <1>4, <1>6, <1>7 DEF Collect

(* What is put together when every part has its result is the file.         *)
LEMMA CompleteAssembles ==
  ASSUME Inv, NEW c \in Callers, call[c].at = "complete", upload[c].state = "open"
  PROVE  Assembled(c) = Content(0, call[c].size)
  <1>1. PICK k, ps, u, tr, o : Is(c, k, ps, u, tr, o)
    BY Known
  <1>2. k.at = "complete" /\ u.state = "open" /\ k = call[c] /\ u = upload[c] /\ ps \in Seq(Part) /\ k.size \in Nat
    BY <1>1, SizesAreSizes DEF Is, Calls
  <1>3. Laid(ps, k.size) /\ \A i \in DOMAIN ps : ps[i].result = "etag"
    BY <1>1, <1>2 DEF Is, CallerOK, Progress, Parted
  <1>4. Len(u.stored) = Len(ps) /\ \A i \in DOMAIN ps : u.stored[i] = Content(ps[i].offset, ps[i].length)
    BY <1>1, <1>2, <1>3 DEF Is, CallerOK, Stored, Parted
  <1> QED
    BY <1>2, <1>3, <1>4, FlattenIs DEF Assembled

LEMMA InterruptInv ==
  ASSUME Inv, NEW c \in Callers, Interrupt(c), UNCHANGED crashed
  PROVE  Inv'
  <1>1. PICK k, ps, u, tr, o : Is(c, k, ps, u, tr, o)
    BY Known
  <1>2. k.at = "interrupt" /\ UNCHANGED <<queue, work, object, upload, trouble, crashed>> /\ k = call[c] /\ ps = parts[c]
    BY <1>1 DEF Interrupt, Is
  <1>3. k \in Calls /\ k.part \in Nat \ {0} /\ k.part <= Len(ps) /\ Len(ps) \in Nat /\ DOMAIN ps = 1 .. Len(ps)
        /\ ps \in Seq(Part) /\ k.part \in DOMAIN ps /\ Laid(ps, k.size) /\ k.answer = "none"
    BY <1>1, <1>2, PartsAre DEF Is, CallerOK, Progress, Parted, Calls
  <1>4. /\ trouble' = [trouble EXCEPT ![c] = tr] /\ upload' = [upload EXCEPT ![c] = u] /\ object' = [object EXCEPT ![c] = o]
        /\ u \in Upload /\ tr \in SUBSET Troubles /\ o \in Seq(Nat) /\ trouble[c] \subseteq tr
    BY <1>1, <1>2 DEF Is
  <1>5. PICK j, p, q, qs : /\ j = k.part /\ p = ps[j] /\ q = [p EXCEPT !.interrupt = TRUE]
                           /\ qs = [ps EXCEPT ![j] = q] /\ parts' = [parts EXCEPT ![c] = qs]
    <2>1. parts' = [parts EXCEPT ![c][k.part].interrupt = TRUE]
      BY <1>2 DEF Interrupt
    <2> QED
      BY <1>2, <2>1
  <1>6. qs \in Seq(Part) /\ Marked(ps, j, qs, q.result, q.interrupt) /\ q.result = p.result
    <2>0. p \in Part
      BY <1>3, <1>5, PartsAre
    <2>1. q = [offset |-> p.offset, length |-> p.length, result |-> p.result, interrupt |-> TRUE]
      BY <1>5, <2>0 DEF Part
    <2>2. q.result = p.result
      BY <2>1
    <2> QED
      BY <1>3, <1>5, <2>2, PartMarked
  <1>7. PICK m \in Calls : /\ call' = [call EXCEPT ![c] = m] /\ m.size = k.size /\ m.answer = k.answer
                           /\ m.at \in {"interrupt", "drain"} /\ m.part <= Len(ps) /\ (m.at = "drain" => m.part = 1)
    <2>1. CASE k.part < Len(ps)
      <3>1. PICK l, m : l = call[c] /\ m = [l EXCEPT !.part = @ + 1] /\ call' = [call EXCEPT ![c] = m]
        BY <1>2, <2>1 DEF Interrupt
      <3>2. m \in Calls /\ m.at = k.at /\ m.part = k.part + 1 /\ m.size = k.size /\ m.answer = k.answer
        BY <1>2, <1>3, <3>1, CallNext
      <3>3. m.part <= Len(ps)
        BY <1>3, <2>1, <3>2
      <3> QED
        BY <1>2, <3>1, <3>2, <3>3
    <2>2. CASE ~(k.part < Len(ps))
      <3>1. PICK l, m : l = call[c] /\ m = [l EXCEPT !.at = "drain", !.part = 1] /\ call' = [call EXCEPT ![c] = m]
        BY <1>2, <2>2 DEF Interrupt
      <3>2. m = [at |-> "drain", size |-> k.size, part |-> 1, tries |-> k.tries, answer |-> k.answer]
        BY <1>2, <1>3, <3>1 DEF Calls
      <3>3. m \in Calls /\ m.at = "drain" /\ m.part = 1 /\ m.size = k.size /\ m.answer = k.answer
        BY <1>3, <3>2 DEF Calls, Places
      <3>4. m.part <= Len(ps)
        BY <1>3, <3>3
      <3> QED
        BY <3>1, <3>3, <3>4
    <2> QED
      BY <2>1, <2>2
  <1>8. \A i \in DOMAIN ps : qs[i].result = ps[i].result
    BY <1>5, <1>6 DEF Marked
  <1>9. Laid(qs, k.size) /\ DOMAIN qs = DOMAIN ps /\ Len(qs) = Len(ps)
    BY <1>3, <1>6 DEF Laid, Marked
  <1>10. CallerOK(m, qs, u, tr)
    <2>1. Progress(m, qs)
      <3>1. \A i \in DOMAIN qs : m.at = "drain" => ~(i < m.part)
        BY <1>3, <1>7, <1>9
      <3> QED
        BY <1>3, <1>7, <1>9, <3>1 DEF Progress, Parted
    <2>2. Stored(m, qs, u)
      <3>1. \A i \in DOMAIN ps : qs[i].offset = ps[i].offset /\ qs[i].length = ps[i].length
        BY <1>6 DEF Marked
      <3> QED
        BY <1>1, <1>2, <1>7, <1>8, <1>9, <3>1 DEF Is, CallerOK, Stored, Parted
    <2>3. Reasons(m, qs, u, tr)
      BY <1>1, <1>2, <1>3, <1>7 DEF Is, CallerOK, Reasons
    <2> QED
      BY <2>1, <2>2, <2>3 DEF CallerOK
  <1>11. \A i : Open(k, ps, i) => Open(m, qs, i)
    BY <1>7, <1>8, <1>9 DEF Open, Awaited
  <1> QED
    BY <1>2, <1>4, <1>5, <1>6, <1>7, <1>10, <1>11, CallerStep

LEMMA DrainInv ==
  ASSUME Inv, NEW c \in Callers, Drain(c), UNCHANGED crashed
  PROVE  Inv'
  <1>1. PICK k, ps, u, tr, o : Is(c, k, ps, u, tr, o)
    BY Known
  <1>2. k.at = "drain" /\ UNCHANGED <<queue, work, object, upload, trouble, crashed>> /\ k = call[c] /\ ps = parts[c]
        /\ ps[k.part].result # "none"
    BY <1>1 DEF Drain, Is
  <1>3. k.part \in Nat \ {0} /\ k.part <= Len(ps) /\ Len(ps) \in Nat /\ DOMAIN ps = 1 .. Len(ps) /\ ps \in Seq(Part)
        /\ k.part \in DOMAIN ps /\ Laid(ps, k.size) /\ k.answer = "none"
    BY <1>1, <1>2, PartsAre DEF Is, CallerOK, Progress, Parted, Calls
  <1>4. /\ trouble' = [trouble EXCEPT ![c] = tr] /\ upload' = [upload EXCEPT ![c] = u] /\ object' = [object EXCEPT ![c] = o]
        /\ u \in Upload /\ tr \in SUBSET Troubles /\ o \in Seq(Nat) /\ trouble[c] \subseteq tr
    BY <1>1, <1>2 DEF Is
  <1>5. \A i \in DOMAIN ps : i <= k.part => ps[i].result # "none"
    <2> SUFFICES ASSUME NEW i \in DOMAIN ps, i <= k.part PROVE ps[i].result # "none"
      OBVIOUS
    <2>1. i < k.part \/ i = k.part
      BY <1>3
    <2>2. i < k.part => ps[i].result # "none"
      BY <1>1, <1>2 DEF Is, CallerOK, Progress
    <2> QED
      BY <1>2, <2>1, <2>2
  <1>6. tr # {} /\ (u.state # "open" \/ tr \cap {"abort", "read"} # {})
    BY <1>1, <1>2 DEF Is, CallerOK, Reasons
  <1>7. CASE k.part < Len(ps)
    <2>1. NextPart(c, "drain") /\ "drain" \in Places
      BY <1>2, <1>7 DEF Drain, Places
    <2>2. PICK m \in Calls : /\ call' = [call EXCEPT ![c] = m] /\ parts' = [parts EXCEPT ![c] = ps]
                             /\ m.size = k.size /\ m.answer = k.answer /\ m.at = k.at /\ m.part = k.part + 1
      BY <1>1, <1>7, <2>1, NextPartIs
    <2>3. Progress(m, ps)
      <3>1. \A i \in DOMAIN ps : i < m.part => ps[i].result # "none"
        BY <1>3, <1>5, <2>2
      <3>2. m.part <= Len(ps)
        BY <1>3, <1>7, <2>2
      <3> QED
        BY <1>2, <1>3, <2>2, <3>1, <3>2 DEF Progress, Parted
    <2>4. Stored(m, ps, u) /\ Reasons(m, ps, u, tr)
      BY <1>1, <1>2, <2>2 DEF Is, CallerOK, Stored, Reasons, Parted
    <2>5. \A i : Open(k, ps, i) => Open(m, ps, i)
      BY <1>2, <2>2 DEF Open
    <2>6. CallerOK(m, ps, u, tr)
      BY <2>3, <2>4 DEF CallerOK
    <2> QED
      BY <1>2, <1>3, <1>4, <2>2, <2>5, <2>6, CallerStep
  <1>8. CASE ~(k.part < Len(ps))
    <2>1. Answer(c, "error")
      BY <1>2, <1>8 DEF Drain
    <2>2. \A i : ~Open(k, ps, i)
      BY <1>3, <1>5, <1>8 DEF Open
    <2>3. u.state = "open" => tr \cap {"abort", "create", "complete", "read"} # {}
      BY <1>6
    <2> QED
      BY <1>1, <1>2, <1>4, <1>6, <2>1, <2>2, <2>3, AnswerStep
  <1> QED
    BY <1>7, <1>8

LEMMA OutcomeIs ==
  ASSUME NEW c, NEW oc \in OutcomesOf(c)
  PROVE  /\ oc.done \in BOOLEAN /\ oc.says \in {"ok", "again", "never"}
         /\ oc.says = "ok" => oc.done
         /\ oc.done => upload[c].state = "open"
  BY DEF OutcomesOf, Outcomes

LEMMA CompleteInv ==
  ASSUME Inv, NEW c \in Callers, Complete(c), UNCHANGED crashed
  PROVE  Inv'
  <1>1. PICK k, ps, u, tr, o : Is(c, k, ps, u, tr, o)
    BY Known
  <1>2. k.at = "complete" /\ UNCHANGED <<queue, work, crashed>>
    BY <1>1 DEF Complete, Is
  <1>3. PICK oc \in OutcomesOf(c) :
          /\ IF oc.done
             THEN /\ upload' = [upload EXCEPT ![c] = [state |-> "completed", stored |-> <<>>]]
                  /\ object' = [object EXCEPT ![c] = Assembled(c)]
             ELSE UNCHANGED <<upload, object>>
          /\ IF oc.says = "ok"
             THEN Answer(c, "ok") /\ UNCHANGED trouble
             ELSE Answer(c, "error") /\ Fails(c, "complete")
    BY DEF Complete
  <1>4. oc.says = "ok" => oc.done
    BY <1>3, OutcomeIs
  <1>5. \A i : ~Open(k, ps, i)
    BY <1>2 DEF Open, Awaited
  <1>6. PICK v \in Upload : upload' = [upload EXCEPT ![c] = v] /\ (oc.done => v.state = "completed")
    <2>1. [state |-> "completed", stored |-> <<>>] \in Upload
      BY EmptySeq DEF Upload
    <2> QED
      BY <1>1, <1>3, <2>1 DEF Is
  <1>7. PICK p \in Seq(Nat) : object' = [object EXCEPT ![c] = p]
    <2>1. CASE oc.done
      <3>1. Assembled(c) = Content(0, k.size)
        BY <1>1, <1>2, <1>3, <2>1, OutcomeIs, CompleteAssembles DEF Is
      <3>2. Content(0, k.size) \in Seq(Nat)
        BY <1>1, ContentIs, SizesAreSizes DEF Is, Calls
      <3> QED
        BY <1>3, <2>1, <3>1, <3>2
    <2>2. CASE ~oc.done
      BY <1>1, <1>3, <2>2 DEF Is
    <2> QED
      BY <2>1, <2>2
  <1>8. CASE oc.says = "ok"
    <2>1. Answer(c, "ok") /\ trouble' = [trouble EXCEPT ![c] = tr] /\ tr \in SUBSET Troubles /\ v.state # "open"
      BY <1>1, <1>3, <1>4, <1>6, <1>8 DEF Is
    <2> QED
      BY <1>1, <1>2, <1>5, <1>6, <1>7, <2>1, AnswerStep
  <1>9. CASE oc.says # "ok"
    <2>1. Answer(c, "error") /\ Fails(c, "complete") /\ "complete" \in Troubles
      BY <1>3, <1>9 DEF Troubles
    <2>2. PICK r \in SUBSET Troubles : r = tr \cup {"complete"} /\ trouble' = [trouble EXCEPT ![c] = r]
      BY <1>1, <2>1 DEF Fails, Is
    <2>3. tr \subseteq r /\ r # {} /\ r \cap {"abort", "create", "complete", "read"} # {}
      BY <2>2
    <2>4. upload' = [upload EXCEPT ![c] = v] /\ object' = [object EXCEPT ![c] = p]
      BY <1>6, <1>7
    <2> QED
      BY <1>1, <1>2, <1>5, <2>1, <2>2, <2>3, <2>4, AnswerStep
  <1> QED
    BY <1>8, <1>9

------------------------------------------------------------------------------
(* The threads' steps                                                       *)

(* what is known of a task that is taken from the queue or at work          *)
LEMMA TaskKnown ==
  ASSUME Inv, NEW w \in Workers, NEW t,
         (work[w] = NoWork /\ queue # <<>> /\ t = Head(queue)) \/ (work[w].at # "idle" /\ t = work[w].for)
  PROVE  \E c \in Callers, i \in Nat : \E k, ps, u, tr, o :
           /\ t = <<c, i>> /\ t \in Task /\ Is(c, k, ps, u, tr, o) /\ Open(k, ps, i)
           /\ work[w].at = "abort" => tr # {}
  <1>1. t \in Task /\ OpenTask(t) /\ (work[w].at = "abort" => t = work[w].for)
    <2>1. CASE work[w] = NoWork /\ queue # <<>> /\ t = Head(queue)
      <3>1. 1 \in DOMAIN queue /\ t = queue[1] /\ t \in Task
        BY <2>1, QueueTail DEF Inv, Types
      <3> QED
        BY <2>1, <3>1 DEF Inv, Tasks, NoWork
    <2>2. CASE work[w].at # "idle" /\ t = work[w].for
      BY <2>2 DEF Inv, Tasks
    <2> QED
      BY <2>1, <2>2
  <1>2. PICK c \in Callers, i \in Nat : t = <<c, i>>
    BY <1>1 DEF Task
  <1>3. PICK k, ps, u, tr, o : Is(c, k, ps, u, tr, o)
    BY Known
  <1>4. Open(k, ps, i)
    BY <1>1, <1>2, <1>3 DEF OpenTask, Is
  <1>5. work[w].at = "abort" => tr # {}
    <2>1. work[w].at = "abort" => trouble[work[w].for[1]] # {}
      BY DEF Inv, Tasks
    <2> QED
      BY <1>1, <1>2, <1>3, <2>1 DEF Is
  <1> QED
    BY <1>1, <1>2, <1>3, <1>4, <1>5

LEMMA SetResultIs ==
  ASSUME Inv, NEW w, NEW t, NEW c \in Callers, NEW i, t = <<c, i>>, NEW ps, ps = parts[c], i \in DOMAIN ps,
         NEW r \in {"etag", "bad"}, SetResult(w, t, r)
  PROVE  \E qs \in Seq(Part) : /\ parts' = [parts EXCEPT ![c] = qs] /\ Marked(ps, i, qs, r, ps[i].interrupt)
                               /\ work' = [work EXCEPT ![w] = NoWork]
  <1>1. PICK p, q, qs : /\ p = ps[i] /\ q = [p EXCEPT !.result = r] /\ qs = [ps EXCEPT ![i] = q]
                        /\ parts' = [parts EXCEPT ![c] = qs]
    <2>1. parts' = [parts EXCEPT ![c][i].result = r]
      BY DEF SetResult
    <2> QED
      BY <2>1
  <1>2. ps \in Seq(Part)
    BY DEF Inv, Types
  <1>3. p \in Part
    BY <1>1, <1>2, PartsAre
  <1>4. q = [offset |-> p.offset, length |-> p.length, result |-> r, interrupt |-> p.interrupt]
    BY <1>1, <1>3 DEF Part
  <1>5. q.result = r /\ q.interrupt = p.interrupt
    BY <1>4
  <1>6. qs \in Seq(Part) /\ Marked(ps, i, qs, q.result, q.interrupt)
    <2>1. \E x \in {"etag", "bad"} : q = [p EXCEPT !.result = x]
      BY <1>1
    <2> QED
      BY <1>1, <1>2, <2>1, PartMarked
  <1>7. work' = [work EXCEPT ![w] = NoWork] /\ Marked(ps, i, qs, r, ps[i].interrupt)
    BY <1>1, <1>5, <1>6 DEF SetResult
  <1> QED
    BY <1>1, <1>6, <1>7

LEMMA SendIs ==
  ASSUME NEW t \in Task, NEW x, x = [NoWork EXCEPT !.at = "send", !.for = t]
  PROVE  x \in Work /\ x.at = "send" /\ x.for = t
  <1>1. x = [at |-> "send", for |-> t, tries |-> 0]
    BY DEF NoWork
  <1> QED
    BY <1>1, RetriesAreNumbers DEF Work

(* An open task's part has no result, so the store's view of it is free.    *)
LEMMA StoredMarked ==
  ASSUME NEW k, NEW ps, NEW qs, NEW i, NEW b, Marked(ps, i, qs, "bad", b), NEW u, Stored(k, ps, u)
  PROVE  Stored(k, qs, u)
  BY DEF Stored, Marked

LEMMA ReasonsMarked ==
  ASSUME NEW k, NEW ps, NEW qs, NEW i, NEW r, NEW b, Marked(ps, i, qs, r, b), NEW u, NEW tr, Reasons(k, ps, u, tr),
         r = "bad" => tr # {} /\ (u.state # "open" \/ tr \cap {"abort", "read"} # {})
  PROVE  Reasons(k, qs, u, tr)
  <1>1. (\E j \in DOMAIN qs : qs[j].result = "bad") => r = "bad" \/ \E j \in DOMAIN ps : ps[j].result = "bad"
    BY DEF Marked
  <1> QED
    BY <1>1 DEF Reasons

LEMMA ReasonsMore ==
  ASSUME NEW k, NEW ps, NEW u, NEW tr, NEW r, Reasons(k, ps, u, tr), tr \subseteq r
  PROVE  Reasons(k, ps, u, r)
  <1>1. /\ tr # {} => r # {}
        /\ tr \cap {"abort", "read"} # {} => r \cap {"abort", "read"} # {}
        /\ tr \cap {"abort", "create", "complete", "read"} # {} => r \cap {"abort", "create", "complete", "read"} # {}
    OBVIOUS
  <1> QED
    BY <1>1 DEF Reasons

LEMMA TakeInv ==
  ASSUME Inv, NEW w \in Workers, Take(w), UNCHANGED crashed
  PROVE  Inv'
  <1>1. PICK t : /\ work[w] = NoWork /\ queue # <<>> /\ t = Head(queue) /\ queue' = Tail(queue)
                 /\ UNCHANGED <<call, object, upload, trouble, crashed>>
                 /\ IF Interrupted(t) THEN SetResult(w, t, "bad")
                    ELSE work' = [work EXCEPT ![w] = [NoWork EXCEPT !.at = "send", !.for = t]] /\ UNCHANGED parts
    BY DEF Take
  <1>0. PICK c \in Callers, i \in Nat : \E k, ps, u, tr, o :
          t = <<c, i>> /\ t \in Task /\ Is(c, k, ps, u, tr, o) /\ Open(k, ps, i)
    BY <1>1, TaskKnown
  <1>2. PICK k, ps, u, tr, o : t = <<c, i>> /\ t \in Task /\ Is(c, k, ps, u, tr, o) /\ Open(k, ps, i)
    BY <1>0
  <1>3. /\ trouble' = [trouble EXCEPT ![c] = tr] /\ upload' = [upload EXCEPT ![c] = u]
        /\ k = call[c] /\ ps = parts[c] /\ u \in Upload /\ tr \in SUBSET Troubles /\ trouble[c] \subseteq tr
        /\ Stored(k, ps, u) /\ Reasons(k, ps, u, tr) /\ Progress(k, ps)
    BY <1>1, <1>2 DEF Is, CallerOK
  <1>4. crashed' \in BOOLEAN
    BY <1>1 DEF Inv, Types
  <1>5. CASE Interrupted(t)
    <2>1. ps[i].interrupt /\ i \in DOMAIN ps
      BY <1>2, <1>3, <1>5 DEF Interrupted, Open
    <2>2. PICK qs \in Seq(Part) : /\ parts' = [parts EXCEPT ![c] = qs] /\ Marked(ps, i, qs, "bad", ps[i].interrupt)
                                  /\ work' = [work EXCEPT ![w] = NoWork]
      <3>1. SetResult(w, t, "bad") /\ "bad" \in {"etag", "bad"}
        BY <1>1, <1>5
      <3> QED
        BY <1>2, <1>3, <2>1, <3>1, SetResultIs
    <2>3. Stored(k, qs, u)
      BY <1>3, <2>2, StoredMarked
    <2>4. k.at \in {"interrupt", "drain"}
      BY <1>3, <2>1 DEF Progress
    <2>5. tr # {} /\ (u.state # "open" \/ tr \cap {"abort", "read"} # {})
      BY <1>3, <2>4 DEF Reasons
    <2>6. Reasons(k, qs, u, tr)
      BY <1>3, <2>2, <2>5, ReasonsMarked
    <2> QED
      BY <1>1, <1>2, <1>3, <1>4, <2>2, <2>3, <2>6, ResultStep
  <1>6. CASE ~Interrupted(t)
    <2>1. PICK x : x = [NoWork EXCEPT !.at = "send", !.for = t] /\ work' = [work EXCEPT ![w] = x] /\ UNCHANGED parts
      BY <1>1, <1>6
    <2>2. x \in Work /\ x.at = "send" /\ x.for = t
      BY <1>2, <2>1, SendIs
    <2>3. x.at # "idle" /\ x.at # "abort"
      BY <2>2
    <2>4. /\ UNCHANGED <<call, parts, object>> /\ Stored(call[c], parts[c], u) /\ Reasons(call[c], parts[c], u, tr)
          /\ work[w] = NoWork /\ queue # <<>> /\ t = Head(queue) /\ queue' = Tail(queue)
      BY <1>1, <1>3, <2>1
    <2> QED
      BY <1>2, <1>3, <1>4, <2>1, <2>2, <2>3, <2>4, TaskStep
  <1> QED
    BY <1>5, <1>6

LEMMA CannotReadPartInv ==
  ASSUME Inv, NEW w \in Workers, CannotReadPart(w)
  PROVE  Inv'
  <1>1. PICK t : /\ work[w] = NoWork /\ queue # <<>> /\ t = Head(queue) /\ queue' = Tail(queue)
                 /\ UNCHANGED <<call, object, upload>> /\ Fails(t[1], "read")
                 /\ \/ crashed' = TRUE /\ UNCHANGED <<parts, work>>
                    \/ SetResult(w, t, "bad") /\ UNCHANGED crashed
    BY DEF CannotReadPart
  <1>0. PICK c \in Callers, i \in Nat : \E k, ps, u, tr, o :
          t = <<c, i>> /\ t \in Task /\ Is(c, k, ps, u, tr, o) /\ Open(k, ps, i)
    BY <1>1, TaskKnown
  <1>2. PICK k, ps, u, tr, o : t = <<c, i>> /\ t \in Task /\ Is(c, k, ps, u, tr, o) /\ Open(k, ps, i)
    BY <1>0
  <1>3. PICK r \in SUBSET Troubles : r = tr \cup {"read"} /\ trouble' = [trouble EXCEPT ![c] = r]
    <2>1. Fails(c, "read")
      BY <1>1, <1>2
    <2> QED
      BY <1>2, <2>1 DEF Is, Fails, Troubles
  <1>4. /\ upload' = [upload EXCEPT ![c] = u] /\ u \in Upload /\ k = call[c] /\ ps = parts[c]
        /\ tr = trouble[c] /\ Stored(k, ps, u) /\ Reasons(k, ps, u, tr)
    BY <1>1, <1>2 DEF Is, CallerOK
  <1>5. tr \subseteq r /\ r # {} /\ r \cap {"abort", "read"} # {}
    BY <1>3
  <1>6. Reasons(k, ps, u, r)
    BY <1>4, <1>5, ReasonsMore
  <1>7. CASE crashed' = TRUE /\ UNCHANGED <<parts, work>>
    <2>1. PICK x \in Work : x = NoWork /\ work' = [work EXCEPT ![w] = x]
      BY <1>1, <1>7 DEF Inv, Types
    <2>2. x.at # "abort" /\ crashed' \in BOOLEAN /\ UNCHANGED parts /\ trouble[c] \subseteq r
      BY <1>4, <1>5, <1>7, <2>1 DEF NoWork
    <2>3. /\ UNCHANGED <<call, parts, object>> /\ Stored(call[c], parts[c], u) /\ Reasons(call[c], parts[c], u, r)
          /\ work[w] = NoWork /\ queue # <<>> /\ t = Head(queue) /\ queue' = Tail(queue)
      BY <1>1, <1>4, <1>6, <1>7
    <2> QED
      BY <1>2, <1>3, <1>4, <2>1, <2>2, <2>3, TaskStep
  <1>8. CASE SetResult(w, t, "bad") /\ UNCHANGED crashed
    <2>1. i \in DOMAIN ps /\ crashed' \in BOOLEAN
      BY <1>2, <1>8 DEF Open, Inv, Types
    <2>2. PICK qs \in Seq(Part) : /\ parts' = [parts EXCEPT ![c] = qs] /\ Marked(ps, i, qs, "bad", ps[i].interrupt)
                                  /\ work' = [work EXCEPT ![w] = NoWork]
      BY <1>2, <1>4, <1>8, <2>1, SetResultIs
    <2>3. Stored(k, qs, u)
      BY <1>4, <2>2, StoredMarked
    <2>4. Reasons(k, qs, u, r)
      BY <1>5, <1>6, <2>2, ReasonsMarked
    <2> QED
      BY <1>1, <1>2, <1>3, <1>4, <1>5, <2>1, <2>2, <2>3, <2>4, ResultStep
  <1> QED
    BY <1>1, <1>7, <1>8

LEMMA PartStored ==
  ASSUME NEW k, NEW ps \in Seq(Part), NEW u \in Upload, NEW i, Stored(k, ps, u), Open(k, ps, i), u.state = "open",
         NEW x, x = [u.stored EXCEPT ![i] = Content(ps[i].offset, ps[i].length)], NEW v, v = [state |-> u.state, stored |-> x]
  PROVE  /\ v \in Upload /\ v.state = u.state /\ Stored(k, ps, v)
         /\ \A qs, b : Marked(ps, i, qs, "etag", b) => Stored(k, qs, v)
  <1>1. i \in DOMAIN ps /\ ps[i].result = "none" /\ k.at \in Parted /\ DOMAIN ps = 1 .. Len(ps) /\ Len(ps) \in Nat
    BY PartsAre DEF Open, Awaited, Parted
  <1>2. k.at \notin {"idle", "read", "put", "create"}
    BY DEF Open, Awaited
  <1>3. Len(u.stored) = Len(ps) /\ \A j \in DOMAIN ps : ps[j].result = "etag" => u.stored[j] = Content(ps[j].offset, ps[j].length)
    BY <1>1 DEF Stored
  <1>4. PICK s, e : s = u.stored /\ e = Content(ps[i].offset, ps[i].length) /\ x = [s EXCEPT ![i] = e]
    OBVIOUS
  <1>5. v = [state |-> u.state, stored |-> x]
    OBVIOUS
  <1>6. e \in Seq(Nat)
    <2>1. ps[i] \in Part
      BY <1>1, PartsAre
    <2>2. ps[i].offset \in Nat /\ ps[i].length \in Nat
      BY <2>1 DEF Part
    <2> QED
      BY <1>4, <2>2, ContentIs
  <1>7. s \in Seq(Seq(Nat)) /\ u.state \in {"none", "open", "aborted", "completed"}
    BY <1>4 DEF Upload
  <1>8. i \in 1 .. Len(s) /\ Len(s) = Len(ps)
    BY <1>1, <1>3, <1>4
  <1>9. x \in Seq(Seq(Nat)) /\ Len(x) = Len(ps) /\ \A j \in 1 .. Len(ps) : x[j] = IF j = i THEN e ELSE s[j]
    BY <1>4, <1>6, <1>7, <1>8, ExceptSeq
  <1>10. v \in Upload /\ v.state = u.state /\ v.stored = x
    <2>1. v.state = u.state /\ v.stored = x
      BY <1>5
    <2>2. PICK a, y : a = u.state /\ y = x /\ v = [state |-> a, stored |-> y] /\ y \in Seq(Seq(Nat))
      BY <1>5, <1>9
    <2> QED
      BY <1>7, <2>1, <2>2 DEF Upload
  <1>11. Stored(k, ps, v)
    BY <1>1, <1>2, <1>3, <1>4, <1>9, <1>10 DEF Stored
  <1>12. ASSUME NEW qs, NEW b, Marked(ps, i, qs, "etag", b)
         PROVE  Stored(k, qs, v)
    <2>1. Len(qs) = Len(ps) /\ DOMAIN qs = DOMAIN ps
      BY <1>12 DEF Marked
    <2>2. \A j \in DOMAIN qs : qs[j].result = "etag" => x[j] = Content(qs[j].offset, qs[j].length)
      <3> SUFFICES ASSUME NEW j \in DOMAIN qs, qs[j].result = "etag" PROVE x[j] = Content(qs[j].offset, qs[j].length)
        OBVIOUS
      <3>1. qs[j].offset = ps[j].offset /\ qs[j].length = ps[j].length /\ j \in 1 .. Len(ps) /\ j \in DOMAIN ps
        BY <1>1, <1>12, <2>1 DEF Marked
      <3>2. CASE j = i
        BY <1>4, <1>9, <3>1, <3>2
      <3>3. CASE j # i
        <4>1. qs[j] = ps[j]
          BY <1>12, <3>1, <3>3 DEF Marked
        <4> QED
          BY <1>3, <1>4, <1>9, <3>1, <3>3, <4>1
      <3> QED
        BY <3>2, <3>3
    <2> QED
      BY <1>2, <1>9, <1>10, <2>1, <2>2 DEF Stored
  <1> QED
    BY <1>10, <1>11, <1>12

LEMMA UploadPartInv ==
  ASSUME Inv, NEW w \in Workers, UploadPart(w), UNCHANGED crashed
  PROVE  Inv'
  <1>1. PICK t : t = work[w].for /\ work[w].at = "send" /\ UNCHANGED <<call, queue, object, crashed>>
    BY DEF UploadPart
  <1>2. work[w].at # "idle"
    BY <1>1
  <1>3. PICK c \in Callers, i \in Nat : \E k, ps, u, tr, o :
          t = <<c, i>> /\ t \in Task /\ Is(c, k, ps, u, tr, o) /\ Open(k, ps, i)
    BY <1>1, <1>2, TaskKnown
  <1>4. PICK k, ps, u, tr, o : t = <<c, i>> /\ t \in Task /\ Is(c, k, ps, u, tr, o) /\ Open(k, ps, i)
    BY <1>3
  <1>5. t[1] = c /\ t[2] = i
    BY <1>4
  <1>6. PICK oc \in OutcomesOf(c) :
          /\ upload' = IF oc.done THEN [upload EXCEPT ![c].stored[i] = Content(parts[c][i].offset, parts[c][i].length)]
                       ELSE upload
          /\ IF oc.says = "ok" THEN UNCHANGED trouble ELSE Fails(c, "part")
          /\ CASE oc.says = "ok" -> SetResult(w, t, "etag")
               [] Again(oc, work[w].tries) -> work' = [work EXCEPT ![w].tries = @ + 1] /\ UNCHANGED parts
               [] OTHER -> work' = [work EXCEPT ![w].at = "abort"] /\ UNCHANGED parts
    BY <1>1, <1>5 DEF UploadPart
  <1>7. /\ k = call[c] /\ ps = parts[c] /\ u = upload[c] /\ u \in Upload /\ ps \in Seq(Part) /\ tr \in SUBSET Troubles
        /\ tr = trouble[c] /\ Stored(k, ps, u) /\ Reasons(k, ps, u, tr) /\ crashed' \in BOOLEAN
        /\ upload = [upload EXCEPT ![c] = u] /\ trouble = [trouble EXCEPT ![c] = tr]
    BY <1>1, <1>4 DEF Is, CallerOK, Inv, Types
  <1>8. PICK v \in Upload : /\ upload' = [upload EXCEPT ![c] = v] /\ v.state = u.state /\ Stored(k, ps, v)
                            /\ \A qs, b : oc.done /\ Marked(ps, i, qs, "etag", b) => Stored(k, qs, v)
    <2>1. CASE oc.done
      <3>1. PICK y, v : /\ y = upload[c] /\ v = [y EXCEPT !.stored[i] = Content(parts[c][i].offset, parts[c][i].length)]
                        /\ upload' = [upload EXCEPT ![c] = v]
        BY <1>6, <2>1
      <3>2. u.state = "open" /\ y = u
        BY <1>6, <1>7, <2>1, <3>1, OutcomeIs
      <3>3. PICK x : x = [u.stored EXCEPT ![i] = Content(ps[i].offset, ps[i].length)] /\ v = [state |-> u.state, stored |-> x]
        BY <1>7, <3>1, <3>2 DEF Upload
      <3>4. /\ v \in Upload /\ v.state = u.state /\ Stored(k, ps, v)
            /\ \A qs, b : Marked(ps, i, qs, "etag", b) => Stored(k, qs, v)
        <4>1. ps \in Seq(Part) /\ u \in Upload /\ Stored(k, ps, u) /\ Open(k, ps, i)
          BY <1>4, <1>7
        <4> QED
          BY <3>2, <3>3, <4>1, PartStored
      <3> QED
        BY <3>1, <3>4
    <2>2. CASE ~oc.done
      BY <1>6, <1>7, <2>2
    <2> QED
      BY <2>1, <2>2
  <1>9. PICK r \in SUBSET Troubles : trouble' = [trouble EXCEPT ![c] = r] /\ tr \subseteq r /\ (oc.says # "ok" => r # {})
    <2>1. CASE oc.says = "ok"
      BY <1>6, <1>7, <2>1
    <2>2. CASE oc.says # "ok"
      <3>1. PICK r \in SUBSET Troubles : r = tr \cup {"part"} /\ trouble' = [trouble EXCEPT ![c] = r]
        BY <1>6, <1>7, <2>2 DEF Fails, Troubles
      <3>2. tr \subseteq r /\ r # {}
        BY <3>1
      <3> QED
        BY <3>1, <3>2
    <2> QED
      BY <2>1, <2>2
  <1>10. Reasons(k, ps, v, r)
    <2>1. Reasons(k, ps, u, r)
      BY <1>7, <1>9, ReasonsMore
    <2> QED
      BY <1>8, <2>1 DEF Reasons
  <1>11. work[w] \in Work /\ work[w].for = t /\ trouble[c] \subseteq r
    BY <1>1, <1>7, <1>9 DEF Inv, Types
  <1>12. CASE oc.says = "ok"
    <2>0. ~Again(oc, work[w].tries)
      BY <1>12 DEF Again
    <2>1. SetResult(w, t, "etag") /\ "etag" \in {"etag", "bad"} /\ oc.done
      BY <1>6, <1>12, <2>0, OutcomeIs
    <2>2. i \in DOMAIN ps /\ ps = parts[c] /\ t = <<c, i>>
      BY <1>4, <1>7 DEF Open
    <2>3. PICK qs \in Seq(Part) : /\ parts' = [parts EXCEPT ![c] = qs] /\ Marked(ps, i, qs, "etag", ps[i].interrupt)
                                  /\ work' = [work EXCEPT ![w] = NoWork]
      BY <2>1, <2>2, SetResultIs
    <2>4. Stored(k, qs, v)
      BY <1>8, <2>1, <2>3
    <2>5. Reasons(k, qs, v, r)
      BY <1>10, <2>3, ReasonsMarked
    <2> QED
      BY <1>1, <1>2, <1>4, <1>7, <1>8, <1>9, <1>11, <2>1, <2>3, <2>4, <2>5, ResultStep
  <1>13. CASE oc.says # "ok" /\ Again(oc, work[w].tries)
    <2>1. PICK y, x : y = work[w] /\ x = [y EXCEPT !.tries = @ + 1] /\ work' = [work EXCEPT ![w] = x] /\ UNCHANGED parts
      BY <1>6, <1>13
    <2>2. PICK n : n = y.tries + 1
      OBVIOUS
    <2>3. n \in 0 .. MaxApiRetryCount
      BY <1>11, <1>13, <2>1, <2>2, RetriesAreNumbers DEF Again, Work
    <2>4. x = [at |-> y.at, for |-> y.for, tries |-> n]
      BY <1>11, <2>1, <2>2 DEF Work
    <2>5. x \in Work /\ x.at = "send" /\ x.for = t
      BY <1>1, <1>11, <2>1, <2>3, <2>4 DEF Work
    <2>6. x.at # "idle" /\ x.at # "abort" /\ x \in Work /\ x.for = t
      BY <2>5
    <2>7. UNCHANGED <<call, parts, object, queue>> /\ Stored(call[c], parts[c], v) /\ Reasons(call[c], parts[c], v, r)
      BY <1>1, <1>7, <1>8, <1>10, <2>1
    <2>8. /\ work' = [work EXCEPT ![w] = x] /\ upload' = [upload EXCEPT ![c] = v] /\ trouble' = [trouble EXCEPT ![c] = r]
          /\ trouble[c] \subseteq r /\ crashed' \in BOOLEAN /\ t = <<c, i>> /\ t \in Task /\ t = work[w].for
          /\ UNCHANGED queue
      BY <1>1, <1>4, <1>7, <1>8, <1>9, <1>11, <2>1
    <2> QED
      BY <1>2, <2>6, <2>7, <2>8, TaskStep
  <1>14. CASE oc.says # "ok" /\ ~Again(oc, work[w].tries)
    <2>1. PICK y, x : y = work[w] /\ x = [y EXCEPT !.at = "abort"] /\ work' = [work EXCEPT ![w] = x] /\ UNCHANGED parts
      BY <1>6, <1>14
    <2>2. x = [at |-> "abort", for |-> y.for, tries |-> y.tries]
      BY <1>11, <2>1 DEF Work
    <2>3. x \in Work /\ x.at = "abort" /\ x.for = t
      BY <1>1, <1>11, <2>1, <2>2 DEF Work
    <2>4. x.at # "idle" /\ r # {}
      BY <1>9, <1>14, <2>3
    <2>5. UNCHANGED <<call, parts, object, queue>> /\ Stored(call[c], parts[c], v) /\ Reasons(call[c], parts[c], v, r)
      BY <1>1, <1>7, <1>8, <1>10, <2>1
    <2>6. /\ work' = [work EXCEPT ![w] = x] /\ upload' = [upload EXCEPT ![c] = v] /\ trouble' = [trouble EXCEPT ![c] = r]
          /\ trouble[c] \subseteq r /\ crashed' \in BOOLEAN /\ t = <<c, i>> /\ t \in Task /\ t = work[w].for
          /\ UNCHANGED queue
      BY <1>1, <1>4, <1>7, <1>8, <1>9, <1>11, <2>1
    <2> QED
      BY <1>2, <2>3, <2>4, <2>5, <2>6, TaskStep
  <1> QED
    BY <1>12, <1>13, <1>14

LEMMA AbortInv ==
  ASSUME Inv, NEW w \in Workers, Abort(w), UNCHANGED crashed
  PROVE  Inv'
  <1>1. PICK t : /\ t = work[w].for /\ work[w].at = "abort" /\ UNCHANGED <<call, queue, object, crashed>>
                 /\ SetResult(w, t, "bad")
    BY DEF Abort
  <1>2. work[w].at # "idle"
    BY <1>1
  <1>3. PICK c \in Callers, i \in Nat : \E k, ps, u, tr, o :
          t = <<c, i>> /\ t \in Task /\ Is(c, k, ps, u, tr, o) /\ Open(k, ps, i) /\ tr # {}
    BY <1>1, <1>2, TaskKnown
  <1>4. PICK k, ps, u, tr, o : t = <<c, i>> /\ t \in Task /\ Is(c, k, ps, u, tr, o) /\ Open(k, ps, i) /\ tr # {}
    BY <1>3
  <1>5. t[1] = c
    BY <1>4
  <1>6. PICK done \in BOOLEAN :
          /\ upload' = IF done THEN [upload EXCEPT ![c] = [state |-> "aborted", stored |-> <<>>]] ELSE upload
          /\ IF done \/ upload[c].state # "open" THEN UNCHANGED trouble ELSE Fails(c, "abort")
    BY <1>1, <1>5 DEF Abort
  <1>7. /\ k = call[c] /\ ps = parts[c] /\ u = upload[c] /\ u \in Upload /\ ps \in Seq(Part) /\ tr \in SUBSET Troubles
        /\ tr = trouble[c] /\ Stored(k, ps, u) /\ Reasons(k, ps, u, tr) /\ crashed' \in BOOLEAN
        /\ upload = [upload EXCEPT ![c] = u] /\ trouble = [trouble EXCEPT ![c] = tr] /\ i \in DOMAIN ps
        /\ k.at \in Awaited
    BY <1>1, <1>4 DEF Is, CallerOK, Inv, Types, Open
  <1>8. PICK v \in Upload : /\ upload' = [upload EXCEPT ![c] = v]
                            /\ (done /\ v.state = "aborted") \/ (~done /\ v = u)
    <2>1. [state |-> "aborted", stored |-> <<>>] \in Upload
      BY EmptySeq DEF Upload
    <2> QED
      BY <1>6, <1>7, <2>1
  <1>9. PICK r \in SUBSET Troubles : /\ trouble' = [trouble EXCEPT ![c] = r] /\ tr \subseteq r
                                     /\ v.state # "open" \/ r \cap {"abort", "read"} # {}
    <2>1. CASE done \/ u.state # "open"
      BY <1>6, <1>7, <1>8, <2>1
    <2>2. CASE ~(done \/ u.state # "open")
      <3>1. PICK r \in SUBSET Troubles : r = tr \cup {"abort"} /\ trouble' = [trouble EXCEPT ![c] = r]
        BY <1>6, <1>7, <2>2 DEF Fails, Troubles
      <3>2. tr \subseteq r /\ r \cap {"abort", "read"} # {}
        BY <3>1
      <3> QED
        BY <3>1, <3>2
    <2> QED
      BY <2>1, <2>2
  <1>10. Stored(k, ps, v)
    BY <1>7, <1>8 DEF Stored, Awaited
  <1>11. Reasons(k, ps, v, r)
    <2>1. Reasons(k, ps, u, r)
      BY <1>7, <1>9, ReasonsMore
    <2> QED
      BY <1>8, <2>1 DEF Reasons
  <1>12. PICK qs \in Seq(Part) : /\ parts' = [parts EXCEPT ![c] = qs] /\ Marked(ps, i, qs, "bad", ps[i].interrupt)
                                 /\ work' = [work EXCEPT ![w] = NoWork]
    <2>1. "bad" \in {"etag", "bad"}
      OBVIOUS
    <2> QED
      BY <1>1, <1>4, <1>7, <2>1, SetResultIs
  <1>13. r # {} /\ trouble[c] \subseteq r
    BY <1>4, <1>7, <1>9
  <1>14. Stored(k, qs, v) /\ Reasons(k, qs, v, r)
    BY <1>9, <1>10, <1>11, <1>12, <1>13, StoredMarked, ReasonsMarked
  <1> QED
    BY <1>1, <1>2, <1>4, <1>7, <1>8, <1>9, <1>12, <1>13, <1>14, ResultStep

------------------------------------------------------------------------------
(* The invariant and what follows from it                                   *)

LEMMA NextInv == Inv /\ [Next]_vars => Inv'
  <1> SUFFICES ASSUME Inv, [Next]_vars PROVE Inv'
    OBVIOUS
  <1>1. ASSUME NEW c \in Callers, NEW size \in Sizes, NEW directory \in BOOLEAN, Begin(c, size, directory), UNCHANGED crashed
        PROVE  Inv'
    BY <1>1, BeginInv
  <1>2. ASSUME NEW c \in Callers, CannotRead(c) \/ Proceed(c), UNCHANGED crashed
        PROVE  Inv'
    BY <1>2, CannotReadInv, MakeStreamInv, UploadSimpleInv, CreateInv, AddTaskInv, CollectInv, InterruptInv,
       DrainInv, CompleteInv DEF Proceed
  <1>3. ASSUME NEW w \in Workers, Run(w), UNCHANGED crashed
        PROVE  Inv'
    BY <1>3, TakeInv, UploadPartInv, AbortInv DEF Run
  <1>4. CASE UNCHANGED vars
    BY <1>4 DEF vars, Inv, Types, Tasks, OpenTask, Open, CallerOK, Progress, Stored, Reasons, IsInjective
  <1> QED
    BY <1>1, <1>2, <1>3, <1>4, CannotReadPartInv DEF Next

(* The invariant holds in every reachable state.                            *)
THEOREM PutInvariance == Spec => []Inv
  BY InitInv, NextInv, PTL DEF Spec

LEMMA TypesFollow == Inv => TypeOK
  <1> SUFFICES ASSUME Inv PROVE TypeOK
    OBVIOUS
  <1>1. ASSUME NEW c \in Callers
        PROVE  /\ call[c] \in [at : {"idle", "read", "put", "create", "add", "collect", "interrupt",
                                     "drain", "complete", "done"},
                               size : Sizes \cup {0}, part : 1 .. Len(parts[c]) + 1, tries : Nat,
                               answer : {"none", "ok", "error"}]
               /\ parts[c] \in Seq([offset : Nat, length : Nat \ {0},
                                    result : {"none", "etag", "bad"}, interrupt : BOOLEAN])
               /\ \A i \in DOMAIN parts[c] :
                     /\ parts[c][i].offset + parts[c][i].length <= call[c].size
                     /\ i < Len(parts[c]) => parts[c][i].length = PartSize
               /\ upload[c].state \in {"none", "open", "aborted", "completed"}
               /\ upload[c].stored \in Seq(Seq(Nat))
               /\ trouble[c] \subseteq {"read", "put", "create", "part", "abort", "complete"}
    <2>1. PICK k, ps, u, tr, o : Is(c, k, ps, u, tr, o)
      BY Known
    <2>2. k \in Calls /\ ps \in Seq(Part) /\ Len(ps) \in Nat /\ k = call[c] /\ ps = parts[c] /\ Progress(k, ps)
      BY <2>1, PartsAre DEF Is, CallerOK
    <2>3. k.part \in 1 .. Len(ps) + 1
      <3>1. k.part \in Nat \ {0}
        BY <2>2 DEF Calls
      <3>2. k.part <= Len(ps) \/ k.part = 1
        BY <2>2 DEF Progress
      <3> QED
        BY <2>2, <3>1, <3>2
    <2>4. k \in [at : Places, size : Sizes \cup {0}, part : 1 .. Len(ps) + 1, tries : Nat,
                 answer : {"none", "ok", "error"}]
      BY <2>2, <2>3 DEF Calls
    <2>5. \A i \in DOMAIN ps : ps[i].offset + ps[i].length <= k.size /\ (i < Len(ps) => ps[i].length = PartSize)
      <3>1. ps = <<>> \/ Laid(ps, k.size)
        BY <2>2 DEF Progress
      <3> QED
        BY <3>1 DEF Laid
    <2> QED
      BY <2>1, <2>2, <2>4, <2>5 DEF Is, Places, Part, Upload, Troubles
  <1>2. \A w \in Workers : work[w].at \in {"idle", "send", "abort"} /\ work[w].tries \in 0 .. MaxApiRetryCount
    BY DEF Inv, Types, Work
  <1>3. IsInjective(queue) /\ crashed \in BOOLEAN
    BY DEF Inv, Types, Tasks
  <1> QED
    BY <1>1, <1>2, <1>3 DEF TypeOK

(* Every variable keeps its type: the parts lie in the file, all but the    *)
(* last are of the configured size, retries stay within the count and no    *)
(* task is queued twice (SdkS3Client::PutObject).                           *)
THEOREM PutTypeCorrect == Spec => []TypeOK
  BY PutInvariance, TypesFollow, PTL

(* A call that has returned has no task in the queue or at a thread, which  *)
(* would use its parts and its file after the name's lock is given up.      *)
THEOREM QuietAfterReturnTheorem == Spec => []QuietAfterReturn
  <1>1. Inv => QuietAfterReturn
    <2> SUFFICES ASSUME Inv, NEW c \in Callers, Returned(c)
                 PROVE  /\ \A i \in DOMAIN queue : queue[i][1] # c
                        /\ \A w \in Workers : work[w] # NoWork => work[w].for[1] # c
      BY DEF QuietAfterReturn
    <2>1. \A t : OpenTask(t) => t[1] # c
      BY DEF OpenTask, Open, Awaited, Returned
    <2> QED
      BY <2>1 DEF Inv, Tasks
  <1> QED
    BY <1>1, PutInvariance, PTL

(* A multipart upload of which a part has failed is not left open at the    *)
(* store when the call has returned, unless the abort failed, the answer of *)
(* the creating or the completing call was lost, or the file could not be   *)
(* read.                                                                    *)
THEOREM AbortsOnFailureTheorem == Spec => []AbortsOnFailure
  <1>1. Inv => AbortsOnFailure
    BY DEF Inv, CallerOK, Reasons, AbortsOnFailure, Returned
  <1> QED
    BY <1>1, PutInvariance, PTL

(* A call fails only when something of its own has failed, whatever the     *)
(* other uploads in the same pool meet.                                     *)
THEOREM FailsByItselfTheorem == Spec => []FailsByItself
  <1>1. Inv => FailsByItself
    BY DEF Inv, CallerOK, Reasons, FailsByItself
  <1> QED
    BY <1>1, PutInvariance, PTL

------------------------------------------------------------------------------
(* PutObject replaces the object as a whole or not at all                   *)

StageOf(k) ==
  CASE k.at = "idle" -> "idle"
    [] k.at = "done" -> k.answer
    [] OTHER -> "busy"

(* Caller c's call becomes m and its object p: a step of AtomicPut.         *)
LEMMA PutMaps ==
  ASSUME Inv, NEW c \in Callers, NEW k, k = call[c], NEW m \in Calls, NEW p,
         call' = [call EXCEPT ![c] = m], object' = [object EXCEPT ![c] = p],
         \/ k.at = "idle" /\ StageOf(m) = "busy" /\ p = object[c]
         \/ k.at \notin {"idle", "done"} /\ m.size = k.size /\ StageOf(m) = "busy" /\ p \in {object[c], Content(0, k.size)}
         \/ /\ k.at \notin {"idle", "done"} /\ m.size = k.size /\ StageOf(m) \in {"ok", "error"}
            /\ p \in {object[c], Content(0, k.size)} /\ (StageOf(m) = "ok" => p = Content(0, k.size))
  PROVE  [Put!Next]_(Put!vars)
  <1>1. PICK stage, stage2, content, content2 :
          /\ stage = [d \in Callers |-> Stage(d)] /\ stage2 = [d \in Callers |-> Stage(d)']
          /\ content = [d \in Callers |-> Content(0, call[d].size)]
          /\ content2 = [d \in Callers |-> Content(0, call'[d].size)]
    OBVIOUS
  <1>2. \A d \in Callers : call'[d] = IF d = c THEN m ELSE call[d]
    BY DEF Inv, Types
  <1>3. \A d \in Callers : Stage(d) = StageOf(call[d]) /\ Stage(d)' = StageOf(call'[d])
    BY DEF Stage, Returned, StageOf
  <1>4. stage2 = [stage EXCEPT ![c] = StageOf(m)] /\ stage[c] = StageOf(k)
    BY <1>1, <1>2, <1>3
  <1>5. content2 = [content EXCEPT ![c] = Content(0, m.size)] /\ content[c] = Content(0, k.size)
    BY <1>1, <1>2
  <1>6. object \in [Callers -> Seq(Nat)]
    BY DEF Inv, Types
  <1>7. CASE k.at = "idle" /\ StageOf(m) = "busy" /\ p = object[c]
    <2>1. stage[c] = "idle"
      BY <1>4, <1>7 DEF StageOf
    <2>2. m.size \in Sizes \cup {0}
      BY DEF Calls
    <2>3. \E x \in {Content(0, s) : s \in Sizes \cup {0}} : content2 = [content EXCEPT ![c] = x]
      BY <1>5, <2>2
    <2>4. object' = object
      BY <1>6, <1>7
    <2>5. Put!Begin(c)
      BY <1>1, <1>4, <1>7, <2>1, <2>3, <2>4 DEF Put!Begin
    <2> QED
      BY <2>5 DEF Put!Next
  <1>8. CASE /\ k.at \notin {"idle", "done"} /\ m.size = k.size /\ StageOf(m) = "busy"
             /\ p \in {object[c], Content(0, k.size)}
    <2>1. stage[c] = "busy"
      BY <1>4, <1>8 DEF StageOf
    <2>2. stage2 = stage /\ content2 = content
      BY <1>1, <1>4, <1>5, <1>8, <2>1
    <2>3. CASE p = object[c]
      <3>1. object' = object
        BY <1>6, <2>3
      <3> QED
        BY <1>1, <2>2, <3>1 DEF Put!vars
    <2>4. CASE p = Content(0, k.size)
      <3>1. Put!Replace(c)
        BY <1>1, <1>5, <2>1, <2>2, <2>4 DEF Put!Replace
      <3> QED
        BY <3>1 DEF Put!Next
    <2> QED
      BY <1>8, <2>3, <2>4
  <1>9. CASE /\ k.at \notin {"idle", "done"} /\ m.size = k.size /\ StageOf(m) \in {"ok", "error"}
             /\ p \in {object[c], Content(0, k.size)} /\ (StageOf(m) = "ok" => p = Content(0, k.size))
    <2>1. stage[c] = "busy"
      BY <1>4, <1>9 DEF StageOf
    <2>2. content2 = content
      BY <1>1, <1>5, <1>9
    <2>3. \E answer \in {"ok", "error"}, x \in {object[c], content[c]} :
            /\ answer = "ok" => x = content[c]
            /\ stage2 = [stage EXCEPT ![c] = answer]
            /\ object' = [object EXCEPT ![c] = x]
      BY <1>4, <1>5, <1>9
    <2>4. Put!Return(c)
      BY <1>1, <2>1, <2>2, <2>3 DEF Put!Return
    <2> QED
      BY <2>4 DEF Put!Next
  <1> QED
    BY <1>7, <1>8, <1>9

(* A step of a caller that is no answer keeps the size of its call.         *)
LEMMA CallerMoves ==
  ASSUME Inv, NEW c \in Callers,
         \/ MakeStream(c) \/ AddTask(c) \/ Collect(c) \/ Interrupt(c)
         \/ (Create(c) \/ Drain(c)) /\ ~Answer(c, "error")
  PROVE  \E k, m : /\ k = call[c] /\ m \in Calls /\ call' = [call EXCEPT ![c] = m] /\ m.size = k.size
                   /\ k.at \notin {"idle", "done"} /\ m.at \notin {"idle", "done"} /\ UNCHANGED object
  <1>1. PICK k, ps, u, tr, o : Is(c, k, ps, u, tr, o)
    BY Known
  <1>2. k = call[c] /\ ps = parts[c] /\ k \in Calls
    BY <1>1 DEF Is
  <1>3. k.at \notin {"idle", "done"} /\ UNCHANGED object
    BY <1>2 DEF MakeStream, AddTask, Collect, Interrupt, Create, Drain
  <1>4. ASSUME NEW a \in Places, a \notin {"idle", "done"}, Goto(c, a) \/ NextPart(c, a)
        PROVE  \E m \in Calls : call' = [call EXCEPT ![c] = m] /\ m.size = k.size /\ m.at \notin {"idle", "done"}
    <2>1. CASE Goto(c, a)
      BY <1>1, <1>4, <2>1, GotoIs
    <2>2. CASE NextPart(c, a)
      <3>1. PICK m \in Calls : /\ call' = [call EXCEPT ![c] = m] /\ m.size = k.size
                               /\ IF k.part < Len(ps) THEN m.at = k.at ELSE m.at = a
        BY <1>1, <2>2, NextPartIs
      <3> QED
        BY <1>3, <1>4, <3>1
    <2> QED
      BY <1>4, <2>1, <2>2
  <1>5. CASE MakeStream(c) \/ AddTask(c) \/ Collect(c)
    <2>1. PICK a \in Places : a \notin {"idle", "done"} /\ (Goto(c, a) \/ NextPart(c, a))
      BY <1>5 DEF MakeStream, AddTask, Collect, Places
    <2> QED
      BY <1>2, <1>3, <1>4, <2>1
  <1>6. CASE Create(c) /\ ~Answer(c, "error")
    <2>1. PICK a \in Places : a \notin {"idle", "done"} /\ (Goto(c, a) \/ NextPart(c, a))
      BY <1>6 DEF Create, Places
    <2> QED
      BY <1>2, <1>3, <1>4, <2>1
  <1>7. CASE Drain(c) /\ ~Answer(c, "error")
    <2>1. PICK a \in Places : a \notin {"idle", "done"} /\ (Goto(c, a) \/ NextPart(c, a))
      BY <1>7 DEF Drain, Places
    <2> QED
      BY <1>2, <1>3, <1>4, <2>1
  <1>8. CASE Interrupt(c)
    <2>1. PICK l, m : /\ l = call[c] /\ call' = [call EXCEPT ![c] = m]
                      /\ m = [l EXCEPT !.part = @ + 1] \/ m = [l EXCEPT !.at = "drain", !.part = 1]
      BY <1>8 DEF Interrupt
    <2>2. CASE m = [l EXCEPT !.part = @ + 1]
      BY <1>2, <1>3, <2>1, <2>2, CallNext
    <2>3. CASE m = [l EXCEPT !.at = "drain", !.part = 1]
      <3>1. m = [at |-> "drain", size |-> k.size, part |-> 1, tries |-> k.tries, answer |-> k.answer]
        BY <1>2, <2>1, <2>3 DEF Calls
      <3>2. m \in Calls /\ m.at = "drain" /\ m.size = k.size
        BY <1>2, <3>1 DEF Calls, Places
      <3> QED
        BY <1>2, <1>3, <2>1, <3>2
    <2> QED
      BY <2>1, <2>2, <2>3
  <1> QED
    BY <1>5, <1>6, <1>7, <1>8

LEMMA MovesOn ==
  ASSUME Inv, NEW c \in Callers, NEW k, k = call[c], NEW m \in Calls, call' = [call EXCEPT ![c] = m], UNCHANGED object,
         k.at \notin {"idle", "done"}, m.at \notin {"idle", "done"}, m.size = k.size
  PROVE  [Put!Next]_(Put!vars)
  <1>1. PICK p : p = object[c] /\ object' = [object EXCEPT ![c] = p]
    BY DEF Inv, Types
  <1>2. StageOf(m) = "busy"
    BY DEF StageOf
  <1> QED
    BY <1>1, <1>2, PutMaps

LEMMA Returns ==
  ASSUME Inv, NEW c \in Callers, NEW k, k = call[c], NEW a \in {"ok", "error"}, Answer(c, a),
         k.at \notin {"idle", "done"}, NEW p, object' = [object EXCEPT ![c] = p],
         p \in {object[c], Content(0, k.size)}, a = "ok" => p = Content(0, k.size)
  PROVE  [Put!Next]_(Put!vars)
  <1>1. PICK l, m : l = call[c] /\ m = [l EXCEPT !.at = "done", !.part = 1, !.answer = a] /\ call' = [call EXCEPT ![c] = m]
    BY DEF Answer
  <1>2. k \in Calls
    BY DEF Inv, Types
  <1>3. m \in Calls /\ m.at = "done" /\ m.size = k.size /\ m.answer = a
    <2>1. m = [at |-> "done", size |-> k.size, part |-> 1, tries |-> k.tries, answer |-> a]
      BY <1>1, <1>2 DEF Calls
    <2> QED
      BY <1>2, <2>1 DEF Calls, Places
  <1>4. StageOf(m) = a
    BY <1>3 DEF StageOf
  <1> QED
    BY <1>1, <1>3, <1>4, PutMaps

LEMMA ObjectKept ==
  ASSUME Inv, NEW c \in Callers, UNCHANGED object
  PROVE  object' = [object EXCEPT ![c] = object[c]]
  BY DEF Inv, Types

LEMMA BeginMaps ==
  ASSUME Inv, NEW c \in Callers, NEW size \in Sizes, NEW directory \in BOOLEAN, Begin(c, size, directory)
  PROVE  [Put!Next]_(Put!vars)
  <1>1. PICK a : a = (IF UnitCount(size, PartSize) > 1 THEN "create" ELSE IF directory THEN "put" ELSE "read")
    OBVIOUS
  <1>2. PICK k, m : k = call[c] /\ m = [k EXCEPT !.size = size, !.at = a] /\ call' = [call EXCEPT ![c] = m]
    BY <1>1 DEF Begin
  <1>3. k \in Calls /\ k.at = "idle" /\ UNCHANGED object /\ a \in {"create", "put", "read"}
    BY <1>1, <1>2 DEF Begin, Inv, Types
  <1>4. m = [at |-> a, size |-> size, part |-> k.part, tries |-> k.tries, answer |-> k.answer]
    BY <1>2, <1>3 DEF Calls
  <1>5. m \in Calls /\ m.at = a
    BY <1>3, <1>4 DEF Calls, Places
  <1>6. StageOf(m) = "busy"
    BY <1>3, <1>5 DEF StageOf
  <1> QED
    BY <1>2, <1>3, <1>5, <1>6, ObjectKept, PutMaps

LEMMA UploadSimpleMaps ==
  ASSUME Inv, NEW c \in Callers, UploadSimple(c)
  PROVE  [Put!Next]_(Put!vars)
  <1>1. PICK oc \in Outcomes :
          /\ object' = IF oc.done THEN [object EXCEPT ![c] = Content(0, call[c].size)] ELSE object
          /\ IF Again(oc, call[c].tries)
             THEN call' = [call EXCEPT ![c].tries = @ + 1] /\ UNCHANGED parts
             ELSE Answer(c, IF oc.says = "ok" THEN "ok" ELSE "error")
    BY DEF UploadSimple
  <1>2. PICK k : k = call[c] /\ k.at = "put" /\ k \in Calls
    BY DEF UploadSimple, Inv, Types
  <1>3. PICK p : /\ p \in {object[c], Content(0, k.size)} /\ object' = [object EXCEPT ![c] = p]
                 /\ oc.done => p = Content(0, k.size)
    <2>1. CASE oc.done
      BY <1>1, <1>2, <2>1
    <2>2. CASE ~oc.done
      BY <1>1, <2>2, ObjectKept
    <2> QED
      BY <2>1, <2>2
  <1>4. CASE Again(oc, call[c].tries)
    <2>1. PICK l, m : l = call[c] /\ m = [l EXCEPT !.tries = @ + 1] /\ call' = [call EXCEPT ![c] = m]
      BY <1>1, <1>4
    <2>2. PICK n \in Nat : n = k.tries + 1
      BY <1>2 DEF Calls
    <2>3. m = [at |-> k.at, size |-> k.size, part |-> k.part, tries |-> n, answer |-> k.answer]
      BY <1>2, <2>1, <2>2 DEF Calls
    <2>4. m \in Calls /\ m.at = k.at /\ m.size = k.size
      BY <1>2, <2>3 DEF Calls
    <2>5. StageOf(m) = "busy" /\ k.at \notin {"idle", "done"}
      BY <1>2, <2>4 DEF StageOf
    <2> QED
      BY <1>2, <1>3, <2>1, <2>4, <2>5, PutMaps
  <1>5. CASE ~Again(oc, call[c].tries)
    <2>1. PICK a \in {"ok", "error"} : Answer(c, a) /\ (a = "ok" => oc.says = "ok")
      BY <1>1, <1>5
    <2>2. oc.says = "ok" => oc.done
      BY DEF Outcomes
    <2>3. k.at \notin {"idle", "done"}
      BY <1>2
    <2> QED
      BY <1>2, <1>3, <2>1, <2>2, <2>3, Returns
  <1> QED
    BY <1>4, <1>5

LEMMA CompleteMaps ==
  ASSUME Inv, NEW c \in Callers, Complete(c)
  PROVE  [Put!Next]_(Put!vars)
  <1>1. PICK k : k = call[c] /\ k.at = "complete" /\ k.at \notin {"idle", "done"}
    BY DEF Complete
  <1>2. PICK oc \in OutcomesOf(c) :
          /\ IF oc.done THEN object' = [object EXCEPT ![c] = Assembled(c)] ELSE UNCHANGED object
          /\ IF oc.says = "ok" THEN Answer(c, "ok") ELSE Answer(c, "error")
    BY DEF Complete
  <1>3. (oc.says = "ok" => oc.done) /\ (oc.done => upload[c].state = "open")
    BY OutcomeIs
  <1>4. PICK p : /\ p \in {object[c], Content(0, k.size)} /\ object' = [object EXCEPT ![c] = p]
                 /\ oc.done => p = Content(0, k.size)
    <2>1. CASE oc.done
      <3>1. Assembled(c) = Content(0, k.size)
        BY <1>1, <1>3, <2>1, CompleteAssembles
      <3> QED
        BY <1>2, <2>1, <3>1
    <2>2. CASE ~oc.done
      BY <1>2, <2>2, ObjectKept
    <2> QED
      BY <2>1, <2>2
  <1>5. PICK a \in {"ok", "error"} : Answer(c, a) /\ (a = "ok" => oc.says = "ok")
    BY <1>2
  <1> QED
    BY <1>1, <1>3, <1>4, <1>5, Returns

LEMMA NextMaps == Inv /\ [Next]_vars => [Put!Next]_(Put!vars)
  <1> SUFFICES ASSUME Inv, [Next]_vars PROVE [Put!Next]_(Put!vars)
    OBVIOUS
  <1>1. ASSUME UNCHANGED <<call, object>>
        PROVE  [Put!Next]_(Put!vars)
    BY <1>1 DEF Put!vars, Stage, Returned
  <1>2. ASSUME NEW c \in Callers, CannotRead(c)
        PROVE  [Put!Next]_(Put!vars)
    <2>1. PICK k, p, a : /\ k = call[c] /\ p = object[c] /\ a = "error" /\ Answer(c, a) /\ UNCHANGED object
                         /\ k.at \notin {"idle", "done"}
      BY <1>2 DEF CannotRead
    <2> QED
      BY <2>1, ObjectKept, Returns
  <1>3. ASSUME NEW c \in Callers, MakeStream(c) \/ AddTask(c) \/ Collect(c) \/ Interrupt(c)
        PROVE  [Put!Next]_(Put!vars)
    BY <1>3, CallerMoves, MovesOn
  <1>4. ASSUME NEW c \in Callers, Create(c) \/ Drain(c)
        PROVE  [Put!Next]_(Put!vars)
    <2>1. PICK k : k = call[c] /\ k.at \notin {"idle", "done"} /\ UNCHANGED object
      BY <1>4 DEF Create, Drain
    <2>2. CASE Answer(c, "error")
      <3>1. PICK p, a : p = object[c] /\ a = "error" /\ Answer(c, a)
        BY <2>2
      <3> QED
        BY <2>1, <3>1, ObjectKept, Returns
    <2>3. CASE ~Answer(c, "error")
      BY <1>4, <2>3, CallerMoves, MovesOn
    <2> QED
      BY <2>2, <2>3
  <1>5. ASSUME NEW w \in Workers, Run(w) \/ CannotReadPart(w)
        PROVE  [Put!Next]_(Put!vars)
    BY <1>1, <1>5 DEF Run, Take, UploadPart, Abort, CannotReadPart
  <1>6. CASE UNCHANGED vars
    BY <1>1, <1>6 DEF vars
  <1> QED
    BY <1>2, <1>3, <1>4, <1>5, <1>6, BeginMaps, UploadSimpleMaps, CompleteMaps DEF Next, Proceed

(* PutObject implements AtomicPut: between the call and the answer the      *)
(* object is replaced by the whole file or left as it is, and true is       *)
(* answered only when it has been replaced, however the parts end and       *)
(* whichever answers are lost.                                              *)
THEOREM ReplacesAsAWholeTheorem == Spec => ReplacesAsAWhole
  <1>1. Init => Put!Init
    <2> SUFFICES ASSUME Init PROVE Put!Init
      OBVIOUS
    <2>1. \A c \in Callers : Stage(c) = "idle" /\ call[c].size = 0
      BY DEF Init, NoCall, Stage, Returned
    <2>2. [c \in Callers |-> Content(0, call[c].size)] \in [Callers -> {Content(0, s) : s \in Sizes \cup {0}}]
      BY <2>1
    <2>3. [c \in Callers |-> Stage(c)] = [c \in Callers |-> "idle"]
      BY <2>1
    <2> QED
      BY <2>2, <2>3 DEF Init, Put!Init
  <1> QED
    BY <1>1, NextMaps, PutInvariance, PTL DEF Spec, ReplacesAsAWhole, Put!Spec

=============================================================================
