------------------------- MODULE SyncContent_proofs -------------------------
(***************************************************************************)
(* Proofs about CSDriver::syncContent, for any object, threads, part sizes *)
(* and requests: the data read is the object's or the program's, and no    *)
(* thread is left at work when a callback returns.                         *)
(***************************************************************************)
EXTENDS SyncContent, SequenceTheorems, TLAPS

Places == {"idle", "alone", "add", "collect", "interrupt", "drain", "ready"}

Calls == [op : {"read", "write", "append", "resize"}, offset : -1 .. MaxSize, length : 0 .. MaxSize,
          at : Places, part : Nat \ {0}, answer : {"none", "ok", "error"}]

Part == [offset : Nat, length : Nat \ {0}, result : {"none", "ok", "bad"}, interrupt : BOOLEAN]

Work == [part : Nat, written : Nat]

(* where threads may have tasks of the callback, and where it downloads     *)
Awaited     == {"add", "collect", "interrupt", "drain"}
Downloading == Awaited \cup {"alone"}

Types ==
  /\ local \in Seq(Data) /\ truth \in Seq(Data) /\ fileSize \in Nat
  /\ call \in Calls /\ parts \in Seq(Part) /\ Len(parts) <= MaxSize
  /\ \A i \in DOMAIN parts : parts[i].offset + parts[i].length <= MaxSize
  /\ queue \in Seq(Nat) /\ transfer \in [Actors -> Work] /\ torn \in BOOLEAN

(* the task of part i may be queued or at work                              *)
Open(k, ps, i) ==
  /\ i \in DOMAIN ps
  /\ k.at \in Awaited
  /\ k.at = "add" => i < k.part
  /\ ps[i].result = "none"

(* tasks are in one place                                                   *)
Tasks ==
  /\ \A i \in DOMAIN queue : Open(call, parts, queue[i])
  /\ \A i, j \in DOMAIN queue : queue[i] = queue[j] => i = j
  /\ \A w \in Workers :
       \/ transfer[w] = Nothing
       \/ /\ Open(call, parts, transfer[w].part)
          /\ \A i \in DOMAIN queue : queue[i] # transfer[w].part
          /\ \A v \in Workers : v # w => transfer[v].part # transfer[w].part
  /\ IF call.at = "alone" THEN transfer[Caller].part = 1 /\ Len(parts) = 1 ELSE transfer[Caller] = Nothing

(* how far a callback k with the parts ps is                                *)
Progress(k, ps) ==
  /\ IF k.at \in Awaited THEN k.part <= Len(ps) ELSE k.part = 1
  /\ \A i \in DOMAIN ps :
       /\ k.at = "add" /\ i >= k.part => ps[i].result = "none"
       /\ k.at = "collect" /\ i < k.part => ps[i].result = "ok"
       /\ k.at = "drain" /\ i < k.part => ps[i].result # "none"

(* the units o + 1 .. o + l of the file f hold the object's data            *)
Filled(f, o, l) == \A u \in o + 1 .. o + l : u <= Len(f) /\ f[u] = "object"

(* the parts lie in b .. e and leave nothing of it out                      *)
Laid(ps, b, e) ==
  /\ Len(ps) > 0 /\ ps[1].offset = b
  /\ \A i \in DOMAIN ps : b <= ps[i].offset /\ ps[i].offset + ps[i].length <= e
  /\ \A u \in b + 1 .. e : \E i \in DOMAIN ps : u \in ps[i].offset + 1 .. ps[i].offset + ps[i].length

End(ps) == ps[Len(ps)].offset + ps[Len(ps)].length

(* The file is long enough for the request k.  An append asks for nothing.  *)
Enough(k, length, size) == k.op # "append" => length >= Min(k.offset + k.length, size)

(* how much of the file was there when the callback began                   *)
BaseOf(k, f, ps) == IF k.at \in Downloading THEN ps[1].offset ELSE Len(f)

(* The file is as the program expects it up to b, and not there beyond.     *)
Prefix(b, f, size, tr) ==
  /\ size = Len(tr)
  /\ \A i \in 1 .. b : f[i] = tr[i]
  /\ \A i \in b + 1 .. size : tr[i] = "object"

Files ==
  /\ Len(local) <= fileSize /\ fileSize <= Len(truth) /\ Len(truth) <= MaxSize
  /\ BaseOf(call, local, parts) <= Len(local)
  /\ \A i \in BaseOf(call, local, parts) + 1 .. Len(local) : local[i] # "written"
  /\ torn \/ Prefix(BaseOf(call, local, parts), local, fileSize, truth)

Request ==
  /\ call.op # "append" => call.offset >= 0
  /\ call.at # "idle" => IF call.op = "append" THEN Len(truth) + call.length <= MaxSize
                         ELSE call.offset + call.length <= MaxSize
  /\ call.at = "ready" \/ (call.at = "idle" /\ call.answer = "ok" /\ call.op = "read") =>
       Enough(call, Len(local), fileSize)

Downloads ==
  call.at \in Downloading =>
    /\ Laid(parts, parts[1].offset, End(parts))
    /\ End(parts) <= fileSize /\ Enough(call, End(parts), fileSize)
    /\ Len(local) <= End(parts)
    /\ call.at = "alone" => Len(local) = parts[1].offset + transfer[Caller].written
    /\ \A i \in DOMAIN parts : parts[i].result = "ok" => Filled(local, parts[i].offset, parts[i].length)
    /\ \A t \in Actors : transfer[t].part # 0 =>
         /\ transfer[t].written <= parts[transfer[t].part].length
         /\ Filled(local, parts[transfer[t].part].offset, transfer[t].written)

Inv == Types /\ Tasks /\ Progress(call, parts) /\ Files /\ Request /\ Downloads

------------------------------------------------------------------------------
(* Files and parts                                                          *)

(* g is f with d at o + 1 .. o + l.                                         *)
LiesOver(f, o, l, d, g) ==
  /\ g \in Seq(Data) /\ Len(f) \in Nat /\ Len(g) \in Nat
  /\ Len(g) = (IF Len(f) > o + l THEN Len(f) ELSE o + l)
  /\ \A i \in 1 .. Len(g) : g[i] = IF i \in o + 1 .. o + l THEN d ELSE IF i <= Len(f) THEN f[i] ELSE "zero"

LEMMA OverlaidIs ==
  ASSUME NEW f \in Seq(Data), NEW o \in Nat, NEW l \in Nat, NEW d \in Data, NEW g, g = Overlaid(f, o, l, d)
  PROVE  LiesOver(f, o, l, d, g)
  <1>1. PICK n \in Nat : n = (IF Len(f) > o + l THEN Len(f) ELSE o + l) /\ n = Max(Len(f), o + l)
    BY LenProperties DEF Max
  <1>2. g = [i \in 1 .. n |-> IF i \in o + 1 .. o + l THEN d ELSE IF i <= Len(f) THEN f[i] ELSE "zero"]
    BY <1>1 DEF Overlaid
  <1>3. \A i \in 1 .. n : (IF i \in o + 1 .. o + l THEN d ELSE IF i <= Len(f) THEN f[i] ELSE "zero") \in Data
    <2>1. \A i \in 1 .. Len(f) : f[i] \in Data
      BY LenProperties
    <2>2. "zero" \in Data
      BY DEF Data
    <2> QED
      BY <2>1, <2>2, LenProperties
  <1>4. g \in [1 .. n -> Data]
    BY <1>2, <1>3
  <1>5. g \in Seq(Data) /\ Len(g) = n
    BY <1>1, <1>4, SeqDef, LenProperties
  <1> QED
    BY <1>1, <1>2, <1>5, LenProperties DEF LiesOver

(* g is f, cut or extended to n.                                            *)
CutTo(f, n, g) ==
  /\ g \in Seq(Data) /\ Len(f) \in Nat /\ Len(g) = n
  /\ \A i \in 1 .. n : g[i] = IF i <= Len(f) THEN f[i] ELSE "zero"

LEMMA ResizedIs ==
  ASSUME NEW f \in Seq(Data), NEW n \in Nat, NEW g, g = Resized(f, n)
  PROVE  CutTo(f, n, g)
  <1>1. g = [i \in 1 .. n |-> IF i <= Len(f) THEN f[i] ELSE "zero"]
    BY DEF Resized
  <1>2. \A i \in 1 .. n : (IF i <= Len(f) THEN f[i] ELSE "zero") \in Data
    <2>1. \A i \in 1 .. Len(f) : f[i] \in Data
      BY LenProperties
    <2>2. "zero" \in Data
      BY DEF Data
    <2> QED
      BY <2>1, <2>2, LenProperties
  <1>3. g \in [1 .. n -> Data]
    BY <1>1, <1>2
  <1> QED
    BY <1>1, <1>3, SeqDef, LenProperties DEF CutTo

LEMMA UnitCountIs ==
  ASSUME NEW n \in Nat, NEW p \in Nat, p > 0, NEW q, q = UnitCount(n, p)
  PROVE  q \in Nat /\ (q - 1) * p < n + (IF n = 0 THEN 1 ELSE 0) /\ n <= q * p /\ q <= n
  <1>1. PICK a \in Nat : a = n + p - 1 /\ q = a \div p
    BY DEF UnitCount
  <1>2. q \in Nat /\ q * p <= a /\ a < (q + 1) * p
    BY <1>1
  <1>3. (q + 1) * p = q * p + p /\ (q - 1) * p = q * p - p /\ q * p \in Int
    BY <1>2
  <1>4. (q - 1) * p < n + (IF n = 0 THEN 1 ELSE 0) /\ n <= q * p
    BY <1>1, <1>2, <1>3
  <1>5. q <= n
    <2>1. PICK w \in Nat : p = 1 + w
      BY p - 1 \in Nat
    <2>2. CASE q > 0
      <3>1. (q - 1) * p = (q - 1) + (q - 1) * w /\ (q - 1) * w \in Nat
        BY <1>2, <2>1, <2>2
      <3> QED
        BY <1>1, <1>2, <1>3, <2>2, <3>1
    <2> QED
      BY <1>2, <2>2
  <1> QED
    BY <1>2, <1>4, <1>5

LEMMA PartsAre ==
  ASSUME NEW ps \in Seq(Part)
  PROVE  /\ Len(ps) \in Nat /\ DOMAIN ps = 1 .. Len(ps)
         /\ \A i \in DOMAIN ps : ps[i] \in Part /\ ps[i].offset \in Nat /\ ps[i].length \in Nat \ {0}
  <1>1. Len(ps) \in Nat /\ DOMAIN ps = 1 .. Len(ps) /\ \A i \in DOMAIN ps : ps[i] \in Part
    BY LenProperties
  <1> QED
    BY <1>1 DEF Part

(* q units cover r                                                          *)
LEMMA Tiles ==
  ASSUME NEW unit \in Nat, unit > 0, NEW r \in Nat, NEW q \in Nat, q > 0, (q - 1) * unit < r, r <= q * unit
  PROVE  /\ \A i \in 1 .. q : unit * (i - 1) \in Nat /\ unit * (i - 1) < r
         /\ r - unit * (q - 1) <= unit
         /\ \A a \in 0 .. r - 1 : \E i \in 1 .. q : unit * (i - 1) <= a /\ a < unit * (i - 1) + unit
  <1>1. ASSUME NEW i \in 1 .. q
        PROVE  unit * (i - 1) \in Nat /\ unit * (i - 1) < r
    <2>1. PICK j \in Nat, w \in Nat : j = i - 1 /\ q - 1 = j + w
      BY i - 1 \in Nat, q - i \in Nat
    <2>2. (q - 1) * unit = unit * j + unit * w /\ unit * j \in Nat /\ unit * w \in Nat
      BY <2>1
    <2> QED
      BY <2>1, <2>2
  <1>2. r - unit * (q - 1) <= unit
    <2>1. q * unit = unit * (q - 1) + unit /\ unit * (q - 1) \in Int
      OBVIOUS
    <2> QED
      BY <2>1
  <1>3. ASSUME NEW a \in 0 .. r - 1
        PROVE  \E i \in 1 .. q : unit * (i - 1) <= a /\ a < unit * (i - 1) + unit
    <2>1. PICK j : j = a \div unit
      OBVIOUS
    <2>2. j \in Nat /\ j * unit <= a /\ a < (j + 1) * unit
      BY <2>1
    <2>3. (j + 1) * unit = unit * j + unit /\ unit * j \in Nat /\ j * unit = unit * j
      BY <2>2
    <2>4. j < q
      <3> SUFFICES ASSUME j >= q PROVE FALSE
        BY <2>2
      <3>1. PICK w \in Nat : j = q + w
        BY <2>2, j - q \in Nat
      <3>2. j * unit = q * unit + w * unit /\ w * unit \in Nat
        BY <3>1
      <3> QED
        BY <2>2, <3>2
    <2>5. j + 1 \in 1 .. q /\ (j + 1) - 1 = j
      BY <2>2, <2>4
    <2> QED
      BY <2>2, <2>3, <2>5
  <1> QED
    BY <1>1, <1>2, <1>3

(* The parts cover what is missing, within the object's size and up to what *)
(* the request needs.                                                       *)
LEMMA FilePartsLaid ==
  ASSUME Types, Len(local) <= fileSize, fileSize <= MaxSize,
         NEW o \in -1 .. MaxSize, NEW l \in 0 .. MaxSize, ~InSync(o, l), NEW ps, ps = FileParts(o, l)
  PROVE  /\ ps \in Seq(Part) /\ Len(ps) <= MaxSize /\ Laid(ps, Len(local), End(ps))
         /\ Len(local) < End(ps) /\ End(ps) <= fileSize /\ (o + l <= End(ps) \/ fileSize <= End(ps))
         /\ \A i \in DOMAIN ps : ps[i].result = "none"
  <1>1. PICK b \in Nat, unit \in Nat : b = Len(local) /\ unit = PartSizeOf(o, l) /\ unit > 0
    <2>1. PartSize \in Nat /\ PartSize > 0 /\ ShortRead \in Nat /\ ShortRead > 0
      BY Sizes
    <2>2. PartSizeOf(o, l) \in Nat /\ PartSizeOf(o, l) > 0
      BY <2>1 DEF PartSizeOf
    <2>3. Len(local) \in Nat
      BY LenProperties DEF Types
    <2> QED
      BY <2>2, <2>3
  <1>2. o + l \in Nat /\ b < o + l /\ b < fileSize /\ fileSize \in Nat /\ MaxSize \in Nat
    BY <1>1, Sizes DEF InSync, Types
  <1>3. PICK n \in Nat : n = UnitCount(o + l, unit) /\ o + l <= n * unit
    <2>1. PICK n : n = UnitCount(o + l, unit)
      OBVIOUS
    <2> QED
      BY <1>1, <1>2, <2>1, UnitCountIs
  <1>4. PICK r \in Nat : /\ r = RequiredSize(o, l) /\ r > 0 /\ b + r <= fileSize
                         /\ o + l <= b + r \/ fileSize <= b + r
    <2>1. n * unit \in Nat
      BY <1>1, <1>3
    <2>2. PICK x \in Nat : x = n * unit
      BY <2>1
    <2>3. RequiredSize(o, l) = (IF x < fileSize THEN x ELSE fileSize) - b
      BY <1>1, <1>3, <2>2 DEF RequiredSize, Min
    <2>4. PICK y : y = (IF x < fileSize THEN x ELSE fileSize) - b
      OBVIOUS
    <2>5. o + l <= x
      BY <1>3, <2>2
    <2>6. y \in Nat /\ y > 0 /\ b + y <= fileSize /\ (o + l <= b + y \/ fileSize <= b + y)
      BY <1>1, <1>2, <2>2, <2>4, <2>5
    <2> QED
      BY <2>3, <2>4, <2>6
  <1>5. PICK q \in Nat : q = UnitCount(r, unit) /\ (q - 1) * unit < r /\ r <= q * unit /\ q <= r /\ q > 0
    <2>1. PICK q \in Nat : q = UnitCount(r, unit) /\ (q - 1) * unit < r /\ r <= q * unit /\ q <= r
      <3>1. PICK q : q = UnitCount(r, unit)
        OBVIOUS
      <3>2. q \in Nat /\ (q - 1) * unit < r + (IF r = 0 THEN 1 ELSE 0) /\ r <= q * unit /\ q <= r
        BY <1>1, <1>4, <3>1, UnitCountIs
      <3> QED
        BY <1>4, <3>1, <3>2
    <2>2. q # 0
      <3> SUFFICES ASSUME q = 0 PROVE FALSE
        OBVIOUS
      <3>1. q * unit = 0
        BY <1>1
      <3> QED
        BY <1>4, <2>1, <3>1
    <2> QED
      BY <2>1, <2>2
  <1>6. ps = [i \in 1 .. q |-> [offset |-> b + unit * (i - 1), length |-> Min(unit, r - unit * (i - 1)),
                               result |-> "none", interrupt |-> FALSE]]
    BY <1>1, <1>4, <1>5 DEF FileParts
  <1>7. /\ \A i \in 1 .. q : unit * (i - 1) \in Nat /\ unit * (i - 1) < r
        /\ r - unit * (q - 1) <= unit
        /\ \A a \in 0 .. r - 1 : \E i \in 1 .. q : unit * (i - 1) <= a /\ a < unit * (i - 1) + unit
    BY <1>1, <1>5, Tiles
  <1>8. \A i \in 1 .. q : \E x, m : /\ x = unit * (i - 1) /\ m = (IF unit < r - x THEN unit ELSE r - x)
                                   /\ ps[i] = [offset |-> b + x, length |-> m, result |-> "none", interrupt |-> FALSE]
    BY <1>6 DEF Min
  <1>9. ASSUME NEW i \in 1 .. q
        PROVE  /\ ps[i] \in Part /\ ps[i].result = "none" /\ ps[i].offset = b + unit * (i - 1)
               /\ ps[i].length = (IF unit < r - unit * (i - 1) THEN unit ELSE r - unit * (i - 1))
               /\ b <= ps[i].offset /\ ps[i].offset + ps[i].length <= b + r
    <2>1. PICK x, m : /\ x = unit * (i - 1) /\ m = (IF unit < r - x THEN unit ELSE r - x)
                      /\ ps[i] = [offset |-> b + x, length |-> m, result |-> "none", interrupt |-> FALSE]
      BY <1>8
    <2>2. x \in Nat /\ x < r /\ m \in Nat \ {0} /\ x + m <= r
      <3>1. x \in Nat /\ x < r
        BY <1>7, <2>1
      <3>2. (m = unit /\ unit < r - x) \/ (m = r - x /\ ~(unit < r - x))
        BY <2>1
      <3>3. CASE m = unit /\ unit < r - x
        BY <1>1, <1>4, <3>1, <3>3
      <3>4. CASE m = r - x /\ ~(unit < r - x)
        BY <1>1, <1>4, <3>1, <3>4
      <3> QED
        BY <3>2, <3>3, <3>4
    <2>3. ps[i].offset = b + x /\ ps[i].length = m /\ ps[i].result = "none"
      BY <2>1
    <2>4. b + x \in Nat
      BY <1>1, <2>2
    <2>5. ps[i] \in Part
      BY <2>1, <2>2, <2>4 DEF Part
    <2>6. b <= b + x /\ (b + x) + m <= b + r
      BY <1>1, <1>4, <2>2
    <2>7. unit * (i - 1) = x
      BY <2>1
    <2> QED
      BY <2>1, <2>3, <2>5, <2>6, <2>7
  <1>10. ps \in Seq(Part) /\ Len(ps) = q /\ DOMAIN ps = 1 .. q
    <2>1. DOMAIN ps = 1 .. q /\ ps = [i \in 1 .. q |-> ps[i]] /\ \A i \in 1 .. q : ps[i] \in Part
      BY <1>6, <1>9
    <2>2. ps \in [1 .. q -> Part]
      BY <2>1
    <2>3. ps \in Seq(Part)
      BY <1>5, <2>2, SeqDef
    <2> QED
      BY <1>5, <2>1, <2>3, LenProperties
  <1>11. End(ps) = b + r
    <2>1. q \in 1 .. q
      BY <1>5
    <2>2. PICK x \in Nat : x = unit * (q - 1) /\ r - x <= unit
      BY <1>7, <2>1
    <2>3. ps[q].offset = b + x /\ ps[q].length = (IF unit < r - x THEN unit ELSE r - x)
      BY <1>9, <2>1, <2>2
    <2>4. ps[q].length = r - x
      BY <1>1, <2>2, <2>3
    <2>5. (b + x) + (r - x) = b + r
      BY <1>1, <2>2
    <2> QED
      BY <1>10, <2>3, <2>4, <2>5 DEF End
  <1>12. ASSUME NEW u \in b + 1 .. b + r
         PROVE  \E i \in DOMAIN ps : u \in ps[i].offset + 1 .. ps[i].offset + ps[i].length
    <2>1. u - b - 1 \in 0 .. r - 1
      BY <1>1, <1>4
    <2>2. PICK i \in 1 .. q : unit * (i - 1) <= u - b - 1 /\ u - b - 1 < unit * (i - 1) + unit
      BY <1>7, <2>1
    <2>3. PICK x \in Nat : x = unit * (i - 1)
      BY <1>7
    <2>4. ps[i].offset = b + x /\ ps[i].length = (IF unit < r - x THEN unit ELSE r - x)
      BY <1>9, <2>3
    <2>5. u \in ps[i].offset + 1 .. ps[i].offset + ps[i].length
      <3>1. PICK a \in Nat : a = u - b - 1 /\ x <= a /\ a < x + unit /\ a < r
        BY <1>4, <2>1, <2>2, <2>3
      <3>2. u \in Nat /\ u = b + 1 + a
        BY <1>1, <1>4, <3>1
      <3>3. PICK m : m = (IF unit < r - x THEN unit ELSE r - x)
        OBVIOUS
      <3>4. m \in Int /\ a < x + m
        BY <3>1, <3>3
      <3>5. u \in (b + x) + 1 .. (b + x) + m
        BY <3>1, <3>2, <3>4
      <3>6. ps[i].offset = b + x /\ ps[i].length = m
        BY <2>4, <3>3
      <3> QED
        BY <3>5, <3>6
    <2> QED
      BY <1>10, <2>5
  <1>13. Laid(ps, b, b + r)
    <2>1. ps[1].offset = b
      <3>1. 1 \in 1 .. q /\ unit * (1 - 1) = 0
        BY <1>1, <1>5
      <3> QED
        BY <1>1, <1>9, <3>1
    <2> QED
      BY <1>5, <1>9, <1>10, <1>12, <2>1 DEF Laid
  <1>14. Len(ps) <= MaxSize /\ Len(local) < End(ps) /\ End(ps) <= fileSize
    <2>1. q <= r
      BY <1>5
    <2>2. b = Len(local) /\ r > 0 /\ b + r <= fileSize /\ fileSize \in Nat /\ MaxSize \in Nat /\ fileSize <= MaxSize
      BY <1>1, <1>2, <1>4
    <2> QED
      BY <1>10, <1>11, <2>1, <2>2
  <1> QED
    BY <1>1, <1>4, <1>9, <1>10, <1>11, <1>13, <1>14

(* the same places in the file                                              *)
Same(ps, qs) ==
  /\ Len(qs) = Len(ps) /\ DOMAIN qs = DOMAIN ps
  /\ \A i \in DOMAIN ps : qs[i].offset = ps[i].offset /\ qs[i].length = ps[i].length

LEMMA SamePlaces ==
  ASSUME NEW ps \in Seq(Part), NEW qs, Same(ps, qs), NEW b, NEW e
  PROVE  /\ Laid(ps, b, e) => Laid(qs, b, e)
         /\ Len(ps) > 0 => End(qs) = End(ps) /\ qs[1].offset = ps[1].offset
  <1>1. Len(ps) \in Nat /\ DOMAIN ps = 1 .. Len(ps)
    BY PartsAre
  <1>2. Len(ps) > 0 => 1 \in DOMAIN ps /\ Len(ps) \in DOMAIN ps
    BY <1>1
  <1>3. Len(ps) > 0 => End(qs) = End(ps) /\ qs[1].offset = ps[1].offset
    BY <1>2 DEF Same, End
  <1>4. Laid(ps, b, e) => Laid(qs, b, e)
    BY <1>3 DEF Same, Laid
  <1> QED
    BY <1>3, <1>4

(* The part i gets the result r, or is marked as interrupted.               *)
LEMMA PartMarked ==
  ASSUME NEW ps \in Seq(Part), NEW i \in DOMAIN ps, NEW q \in Part, q.offset = ps[i].offset, q.length = ps[i].length,
         NEW qs, qs = [ps EXCEPT ![i] = q]
  PROVE  qs \in Seq(Part) /\ Same(ps, qs) /\ qs[i] = q /\ \A j \in DOMAIN ps : j # i => qs[j] = ps[j]
  <1>1. i \in 1 .. Len(ps) /\ DOMAIN ps = 1 .. Len(ps)
    BY PartsAre
  <1>2. qs \in Seq(Part) /\ Len(qs) = Len(ps) /\ \A j \in 1 .. Len(ps) : qs[j] = IF j = i THEN q ELSE ps[j]
    BY <1>1, ExceptSeq
  <1>3. DOMAIN qs = DOMAIN ps
    OBVIOUS
  <1> QED
    BY <1>1, <1>2, <1>3 DEF Same

LEMMA PartEnded ==
  ASSUME NEW p \in Part, NEW r \in {"ok", "bad"}, NEW q, q = [p EXCEPT !.result = r]
  PROVE  q \in Part /\ q.offset = p.offset /\ q.length = p.length /\ q.result = r
  <1>1. q = [offset |-> p.offset, length |-> p.length, result |-> r, interrupt |-> p.interrupt]
    BY DEF Part
  <1> QED
    BY <1>1 DEF Part

LEMMA PartInterrupted ==
  ASSUME NEW p \in Part, NEW q, q = [p EXCEPT !.interrupt = TRUE]
  PROVE  q \in Part /\ q.offset = p.offset /\ q.length = p.length /\ q.result = p.result
  <1>1. q = [offset |-> p.offset, length |-> p.length, result |-> p.result, interrupt |-> TRUE]
    BY DEF Part
  <1> QED
    BY <1>1 DEF Part

LEMMA NextPartIs ==
  ASSUME call \in Calls, NEW a \in Places, NEW m, m = NextPart(a)
  PROVE  /\ m \in Calls /\ m.op = call.op /\ m.offset = call.offset /\ m.length = call.length /\ m.answer = call.answer
         /\ IF call.part < Len(parts) THEN m.at = call.at /\ m.part = call.part + 1 ELSE m.at = a /\ m.part = 1
  <1>1. CASE call.part < Len(parts)
    <2>1. PICK p \in Nat \ {0} : p = call.part + 1
      BY DEF Calls
    <2>2. m = [op |-> call.op, offset |-> call.offset, length |-> call.length, at |-> call.at, part |-> p,
               answer |-> call.answer]
      BY <1>1, <2>1 DEF NextPart, Calls
    <2> QED
      BY <1>1, <2>1, <2>2 DEF Calls
  <1>2. CASE ~(call.part < Len(parts))
    <2>1. m = [op |-> call.op, offset |-> call.offset, length |-> call.length, at |-> a, part |-> 1,
               answer |-> call.answer]
      BY <1>2 DEF NextPart, Calls
    <2> QED
      BY <1>2, <2>1 DEF Calls
  <1> QED
    BY <1>1, <1>2

------------------------------------------------------------------------------
(* What the parts of the invariant need                                     *)

LEMMA Known ==
  ASSUME Inv
  PROVE  /\ call \in Calls /\ parts \in Seq(Part) /\ Len(parts) \in Nat /\ DOMAIN parts = 1 .. Len(parts)
         /\ Len(local) \in Nat /\ fileSize \in Nat /\ Len(truth) \in Nat /\ MaxSize \in Nat
         /\ call.at \in Awaited => call.part \in DOMAIN parts
  <1>1. call \in Calls /\ parts \in Seq(Part) /\ Len(local) \in Nat /\ fileSize \in Nat /\ Len(truth) \in Nat
    BY LenProperties DEF Inv, Types
  <1>2. Len(parts) \in Nat /\ DOMAIN parts = 1 .. Len(parts)
    BY <1>1, PartsAre
  <1>3. call.at \in Awaited => call.part \in DOMAIN parts
    <2>1. call.part \in Nat \ {0}
      BY <1>1 DEF Calls
    <2> QED
      BY <1>2, <2>1 DEF Inv, Progress
  <1> QED
    BY <1>1, <1>2, <1>3, Sizes

LEMMA Quiet ==
  ASSUME Inv, call.at \notin Awaited
  PROVE  queue = <<>> /\ \A w \in Workers : transfer[w] = Nothing
  <1>1. \A i : ~Open(call, parts, i)
    BY DEF Open
  <1>2. DOMAIN queue = {}
    BY <1>1 DEF Inv, Tasks
  <1>3. queue = <<>>
    <2>1. Len(queue) \in Nat /\ DOMAIN queue = 1 .. Len(queue)
      BY LenProperties DEF Inv, Types
    <2>2. Len(queue) = 0
      BY <1>2, <2>1
    <2> QED
      BY <2>2, EmptySeq DEF Inv, Types
  <1> QED
    BY <1>1, <1>3 DEF Inv, Tasks

LEMMA TasksKept ==
  ASSUME Inv, NEW m, NEW qs, call' = m, parts' = qs, UNCHANGED <<queue, transfer>>, call.at # "alone", m.at # "alone",
         \A i : Open(call, parts, i) => Open(m, qs, i)
  PROVE  Tasks'
  BY DEF Inv, Tasks

(* A step within a download that does not touch the file.                   *)
LEMMA GoesOn ==
  ASSUME Inv, call.at \in Awaited, NEW m, call' = m, m.at \in Awaited,
         m.op = call.op, m.offset = call.offset, m.length = call.length,
         NEW qs, parts' = qs, Same(parts, qs), UNCHANGED <<cached, torn>>,
         \A i \in DOMAIN qs : qs[i].result = "ok" => parts[i].result = "ok" \/ Filled(local, parts[i].offset, parts[i].length),
         \A t \in Actors : transfer'[t].part # 0 =>
           \/ transfer'[t] = transfer[t] /\ transfer[t].part \in DOMAIN parts
           \/ transfer'[t].part \in DOMAIN parts /\ transfer'[t].written = 0
  PROVE  Files' /\ Request' /\ Downloads'
  <1>1. call.at \in Downloading /\ m.at \in Downloading /\ m.at # "alone" /\ m.at # "idle" /\ m.at # "ready" /\ call.at # "idle"
    BY DEF Downloading, Awaited
  <1>2. local' = local /\ fileSize' = fileSize /\ truth' = truth /\ torn' = torn
    BY DEF cached
  <1>3. parts \in Seq(Part) /\ Laid(parts, parts[1].offset, End(parts)) /\ Len(parts) > 0
    BY <1>1, Known DEF Inv, Downloads, Laid
  <1>4. End(qs) = End(parts) /\ qs[1].offset = parts[1].offset /\ Laid(qs, qs[1].offset, End(qs))
    BY <1>3, SamePlaces
  <1>5. BaseOf(m, local, qs) = BaseOf(call, local, parts)
    BY <1>1, <1>4 DEF BaseOf
  <1>6. Files'
    BY <1>2, <1>5 DEF Inv, Files
  <1>7. Request'
    BY <1>1, <1>2 DEF Inv, Request
  <1>8. \A i \in DOMAIN parts : parts[i].length \in Nat /\ parts[i].offset \in Nat
    BY <1>3, PartsAre
  <1>9. \A i \in DOMAIN qs : qs[i].result = "ok" => Filled(local, qs[i].offset, qs[i].length)
    BY <1>1 DEF Same, Inv, Downloads
  <1>10. \A t \in Actors : transfer'[t].part # 0 =>
           /\ transfer'[t].written <= qs[transfer'[t].part].length
           /\ Filled(local, qs[transfer'[t].part].offset, transfer'[t].written)
    <2> SUFFICES ASSUME NEW t \in Actors, transfer'[t].part # 0
                 PROVE  /\ transfer'[t].written <= qs[transfer'[t].part].length
                        /\ Filled(local, qs[transfer'[t].part].offset, transfer'[t].written)
      OBVIOUS
    <2>1. PICK i, n : i = transfer'[t].part /\ n = transfer'[t].written /\ i \in DOMAIN parts
      OBVIOUS
    <2>2. /\ qs[i].offset = parts[i].offset /\ qs[i].length = parts[i].length
          /\ parts[i].length \in Nat /\ parts[i].offset \in Nat
      BY <1>8, <2>1 DEF Same
    <2>3. n <= parts[i].length /\ Filled(local, parts[i].offset, n)
      <3>1. CASE transfer'[t] = transfer[t]
        BY <1>1, <2>1, <3>1 DEF Inv, Downloads
      <3>2. CASE n = 0
        <4>1. parts[i].offset + 1 .. parts[i].offset + 0 = {}
          BY <2>2
        <4> QED
          BY <2>2, <3>2, <4>1 DEF Filled
      <3> QED
        BY <2>1, <3>1, <3>2
    <2> QED
      BY <2>1, <2>2, <2>3
  <1>11. Enough(m, End(qs), fileSize) /\ End(qs) <= fileSize /\ Len(local) <= End(qs)
    BY <1>1, <1>4 DEF Inv, Downloads, Enough
  <1>12. Downloads'
    BY <1>1, <1>2, <1>4, <1>9, <1>10, <1>11 DEF Downloads
  <1> QED
    BY <1>6, <1>7, <1>12
(* A thread that downloads has a part.                                      *)
LEMMA Busy ==
  ASSUME Inv, NEW t \in Actors, transfer[t].part # 0
  PROVE  transfer[t].part \in DOMAIN parts /\ transfer[t] \in Work /\ (t # Caller => Open(call, parts, transfer[t].part))
  <1>1. transfer[t] \in Work
    BY DEF Inv, Types
  <1>2. transfer[t] # Nothing
    BY DEF Nothing
  <1>3. CASE t = Caller
    <2>1. transfer[t].part = 1 /\ Len(parts) = 1
      BY <1>2, <1>3 DEF Inv, Tasks
    <2> QED
      BY <1>1, <1>3, <2>1, Known
  <1>4. CASE t # Caller
    <2>1. t \in Workers
      BY <1>4 DEF Actors
    <2>2. Open(call, parts, transfer[t].part)
      BY <1>2, <2>1 DEF Inv, Tasks
    <2> QED
      BY <1>1, <2>2 DEF Open
  <1> QED
    BY <1>3, <1>4

------------------------------------------------------------------------------
(* The steps                                                                *)

LEMMA InitInv == Init => Inv
  <1> SUFFICES ASSUME Init PROVE Inv
    OBVIOUS
  <1>1. /\ local = <<>> /\ fileSize = ObjectSize /\ parts = <<>> /\ queue = <<>> /\ torn = FALSE
        /\ truth = [i \in 1 .. ObjectSize |-> "object"]
        /\ call = [op |-> "read", offset |-> 0, length |-> 0, at |-> "idle", part |-> 1, answer |-> "none"]
        /\ \A t \in Actors : transfer[t] = Nothing
    BY DEF Init
  <1>2. /\ ObjectSize \in Nat /\ MaxSize \in Nat /\ ObjectSize <= MaxSize
        /\ local \in Seq(Data) /\ Len(local) = 0 /\ queue \in Seq(Nat) /\ parts \in Seq(Part) /\ Len(parts) = 0
        /\ DOMAIN parts = {} /\ DOMAIN queue = {}
    BY <1>1, Sizes, EmptySeq
  <1>3. truth \in Seq(Data) /\ Len(truth) = ObjectSize /\ \A i \in 1 .. ObjectSize : truth[i] = "object"
    <2>1. truth \in [1 .. ObjectSize -> Data]
      BY <1>1 DEF Data
    <2> QED
      BY <1>1, <1>2, <2>1, SeqDef, LenProperties
  <1>4. transfer \in [Actors -> Work]
    <2>1. Nothing \in Work
      BY DEF Nothing, Work
    <2>2. transfer = [t \in Actors |-> Nothing]
      BY DEF Init
    <2> QED
      BY <2>1, <2>2
  <1>5. call \in Calls /\ call.at = "idle" /\ call.part = 1 /\ call.op = "read" /\ call.answer = "none" /\ call.offset = 0
    <2>1. 0 \in -1 .. MaxSize /\ 0 \in 0 .. MaxSize /\ 1 \in Nat \ {0}
      BY <1>2
    <2> QED
      BY <1>1, <2>1 DEF Calls, Places
  <1>6. Types
    <2>1. fileSize \in Nat /\ Len(parts) <= MaxSize
      BY <1>1, <1>2
    <2>4. torn \in BOOLEAN
      BY <1>1
    <2>2. \A i \in DOMAIN parts : parts[i].offset + parts[i].length <= MaxSize
      BY <1>2
    <2>3. local \in Seq(Data) /\ parts \in Seq(Part) /\ queue \in Seq(Nat) /\ truth \in Seq(Data) /\ call \in Calls
      BY <1>2, <1>3, <1>5
    <2> QED
      BY <1>4, <2>1, <2>2, <2>3, <2>4 DEF Types
  <1>7. Caller \in Actors /\ Workers \subseteq Actors
    BY DEF Actors
  <1>8. Tasks
    BY <1>1, <1>2, <1>5, <1>7 DEF Tasks
  <1>9. Progress(call, parts)
    BY <1>1, <1>2, <1>5 DEF Progress, Awaited
  <1>10. BaseOf(call, local, parts) = 0
    BY <1>2, <1>5 DEF BaseOf, Downloading, Awaited
  <1>11. Prefix(0, local, fileSize, truth)
    BY <1>1, <1>2, <1>3 DEF Prefix
  <1>12. Files
    BY <1>1, <1>2, <1>3, <1>10, <1>11 DEF Files
  <1>13. Request
    BY <1>5 DEF Request
  <1>14. Downloads
    BY <1>5 DEF Downloads, Downloading, Awaited
  <1> QED
    BY <1>6, <1>8, <1>9, <1>12, <1>13, <1>14 DEF Inv

LEMMA AddTaskStep == Inv /\ AddTask => Inv'
  <1> SUFFICES ASSUME Inv, AddTask PROVE Inv'
    OBVIOUS
  <1>1. /\ call.at = "add" /\ queue' = Append(queue, call.part) /\ call' = NextPart("collect")
        /\ UNCHANGED <<cached, parts, transfer, torn>>
    BY DEF AddTask
  <1>2. call.at \in Awaited /\ call.at # "alone" /\ call.part \in DOMAIN parts /\ call.part \in Nat \ {0} /\ call \in Calls
    BY <1>1, Known DEF Awaited, Calls
  <1>3. PICK m : /\ m = call' /\ m \in Calls /\ m.op = call.op /\ m.offset = call.offset /\ m.length = call.length
                 /\ IF call.part < Len(parts) THEN m.at = "add" /\ m.part = call.part + 1 ELSE m.at = "collect" /\ m.part = 1
    <2>1. "collect" \in Places
      BY DEF Places
    <2> QED
      BY <1>1, <1>2, <2>1, NextPartIs
  <1>4. m.at \in Awaited /\ m.at # "alone"
    BY <1>3 DEF Awaited
  <1>5. DOMAIN parts = 1 .. Len(parts) /\ Len(parts) \in Nat /\ parts[call.part].result = "none"
    BY <1>1, <1>2, Known DEF Inv, Progress
  <1>6. \A i : Open(call, parts, i) => Open(m, parts, i) /\ i # call.part
    BY <1>1, <1>2, <1>3, <1>4, <1>5 DEF Open
  <1>7. Open(m, parts, call.part)
    BY <1>1, <1>2, <1>3, <1>4, <1>5 DEF Open
  <1>8. /\ queue' \in Seq(Nat) /\ Len(queue) \in Nat /\ DOMAIN queue = 1 .. Len(queue) /\ DOMAIN queue' = 1 .. Len(queue) + 1
        /\ \A i \in 1 .. Len(queue) : queue'[i] = queue[i]
        /\ queue'[Len(queue) + 1] = call.part
    <2>1. queue \in Seq(Nat) /\ call.part \in Nat
      BY <1>2 DEF Inv, Types
    <2> QED
      BY <1>1, <2>1, AppendProperties, LenProperties
  <1>9. Types'
    BY <1>1, <1>3, <1>8 DEF Inv, Types, cached
  <1>10. Tasks'
    <2>1. \A i \in DOMAIN queue' : Open(m, parts, queue'[i])
      BY <1>6, <1>7, <1>8 DEF Inv, Tasks
    <2>2. \A i, j \in DOMAIN queue' : queue'[i] = queue'[j] => i = j
      BY <1>6, <1>8 DEF Inv, Tasks
    <2>3. \A w \in Workers :
            \/ transfer[w] = Nothing
            \/ /\ Open(m, parts, transfer[w].part)
               /\ \A i \in DOMAIN queue' : queue'[i] # transfer[w].part
               /\ \A v \in Workers : v # w => transfer[v].part # transfer[w].part
      BY <1>6, <1>8 DEF Inv, Tasks
    <2>4. transfer[Caller] = Nothing
      BY <1>2 DEF Inv, Tasks
    <2> QED
      BY <1>1, <1>3, <1>4, <2>1, <2>2, <2>3, <2>4 DEF Tasks
  <1>11. Progress(m, parts)
    <2>1. \A i \in DOMAIN parts : i >= call.part => parts[i].result = "none"
      BY <1>1 DEF Inv, Progress
    <2> QED
      BY <1>2, <1>3, <1>4, <1>5, <2>1 DEF Progress
  <1>12. \A t \in Actors : transfer'[t].part # 0 => transfer'[t] = transfer[t] /\ transfer[t].part \in DOMAIN parts
    BY <1>1, <1>2, Busy
  <1>13. Same(parts, parts)
    BY DEF Same
  <1>14. Files' /\ Request' /\ Downloads'
    BY <1>1, <1>2, <1>3, <1>4, <1>12, <1>13, GoesOn
  <1> QED
    BY <1>1, <1>3, <1>9, <1>10, <1>11, <1>14 DEF Inv
(* The callback fails and what is in the file may have holes.               *)
LEMMA GivesUp ==
  ASSUME Inv, NEW m, call' = m, m.op = call.op, m.offset = call.offset, m.at = "idle", m.answer = "error",
         UNCHANGED cached, torn'
  PROVE  Files' /\ Request' /\ Downloads'
  <1>1. m.at \notin Downloading
    BY DEF Downloading, Awaited
  <1>2. BaseOf(m, local, parts') = Len(local) /\ Len(local) \in Nat
    BY <1>1, Known DEF BaseOf
  <1>3. local' = local /\ fileSize' = fileSize /\ truth' = truth
    BY DEF cached
  <1>4. Len(local) <= Len(local) /\ Len(local) + 1 .. Len(local) = {}
    BY <1>2
  <1>5. Files'
    BY <1>2, <1>3, <1>4 DEF Inv, Files
  <1>6. Request' /\ Downloads'
    BY <1>1 DEF Inv, Request, Downloads
  <1> QED
    BY <1>5, <1>6

(* All the parts have ended: the threads are done with the callback.        *)
LEMMA Ended ==
  ASSUME Inv, call.at \in Awaited, \A i \in DOMAIN parts : parts[i].result # "none", NEW m, m.at \notin Awaited \cup {"alone"},
         call' = m, UNCHANGED <<queue, transfer>>
  PROVE  Tasks'
  <1>1. \A i : ~Open(call, parts, i)
    BY DEF Open
  <1>2. DOMAIN queue = {} /\ \A t \in Workers : transfer[t] = Nothing
    BY <1>1 DEF Inv, Tasks
  <1>3. transfer[Caller] = Nothing
    BY DEF Inv, Tasks, Awaited
  <1> QED
    BY <1>2, <1>3 DEF Tasks

(* The download is left with what it has fetched, all of it or, for one     *)
(* part, the beginning.                                                     *)
LEMMA Left ==
  ASSUME Inv, call.at \in Downloading, NEW m, call' = m, m.op = call.op, m.offset = call.offset, m.length = call.length,
         UNCHANGED <<cached, torn>>, \A u \in parts[1].offset + 1 .. Len(local) : local[u] = "object",
         (m.at = "ready" /\ Len(local) = End(parts)) \/ (m.at = "idle" /\ m.answer = "error")
  PROVE  Files' /\ Request' /\ Downloads'
  <1>1. m.at \notin Downloading /\ call.at # "idle" /\ call.at # "ready"
    BY DEF Downloading, Awaited
  <1>2. Len(local) \in Nat /\ fileSize \in Nat
    BY Known
  <1>3. local' = local /\ fileSize' = fileSize /\ truth' = truth /\ torn' = torn
    BY DEF cached
  <1>4. BaseOf(m, local, parts') = Len(local) /\ BaseOf(call, local, parts) = parts[1].offset
    BY <1>1 DEF BaseOf
  <1>5. PICK b : b = parts[1].offset /\ b \in Nat
    <2>1. Len(parts) \in Nat /\ Len(parts) > 0 /\ DOMAIN parts = 1 .. Len(parts) /\ parts \in Seq(Part)
      BY Known DEF Inv, Downloads, Laid
    <2>2. 1 \in DOMAIN parts
      BY <2>1
    <2> QED
      BY <2>1, <2>2, PartsAre
  <1>6. torn \/ Prefix(Len(local), local, fileSize, truth)
    <2>1. Prefix(b, local, fileSize, truth) => Prefix(Len(local), local, fileSize, truth)
      <3>1. Len(local) <= fileSize /\ b <= Len(local)
        BY <1>4, <1>5 DEF Inv, Files
      <3> QED
        BY <1>2, <1>5, <3>1 DEF Prefix
    <2> QED
      BY <1>4, <1>5, <2>1 DEF Inv, Files
  <1>7. Files'
    <2>1. Len(local) <= Len(local) /\ Len(local) + 1 .. Len(local) = {}
      BY <1>2
    <2> QED
      BY <1>3, <1>4, <1>6, <2>1 DEF Inv, Files
  <1>8. Request'
    <2>1. m.at = "ready" => Enough(m, Len(local), fileSize)
      BY <1>1 DEF Inv, Downloads, Enough
    <2> QED
      BY <1>1, <1>3, <2>1 DEF Inv, Request
  <1>9. Downloads'
    BY <1>1 DEF Downloads
  <1> QED
    BY <1>7, <1>8, <1>9

LEMMA CollectStep == Inv /\ Collect => Inv'
  <1> SUFFICES ASSUME Inv, Collect PROVE Inv'
    OBVIOUS
  <1>1. /\ call.at = "collect" /\ parts[call.part].result # "none"
        /\ call' = IF parts[call.part].result = "bad" THEN [call EXCEPT !.at = "interrupt", !.part = 1] ELSE NextPart("ready")
        /\ UNCHANGED <<cached, parts, queue, transfer, torn>>
    BY DEF Collect
  <1>2. call.at \in Awaited /\ call.at # "alone" /\ call.part \in DOMAIN parts /\ call.part \in Nat \ {0} /\ call \in Calls
    BY <1>1, Known DEF Awaited, Calls
  <1>3. /\ DOMAIN parts = 1 .. Len(parts) /\ Len(parts) \in Nat /\ parts \in Seq(Part)
        /\ parts[call.part].result \in {"ok", "bad"}
        /\ \A i \in DOMAIN parts : i < call.part => parts[i].result = "ok"
    <2>1. DOMAIN parts = 1 .. Len(parts) /\ Len(parts) \in Nat /\ parts \in Seq(Part)
      BY Known
    <2>2. \A i \in DOMAIN parts : i < call.part => parts[i].result = "ok"
      BY <1>1 DEF Inv, Progress
    <2>3. parts[call.part] \in Part
      BY <1>2, <2>1, PartsAre
    <2>4. parts[call.part].result \in {"ok", "bad"}
      BY <1>1, <2>3 DEF Part
    <2> QED
      BY <2>1, <2>2, <2>4
  <1>4. PICK m : /\ m = call' /\ m \in Calls /\ m.op = call.op /\ m.offset = call.offset /\ m.length = call.length
                 /\ \/ parts[call.part].result = "bad" /\ m.at = "interrupt" /\ m.part = 1
                    \/ /\ parts[call.part].result = "ok" /\ call.part < Len(parts)
                       /\ m.at = "collect" /\ m.part = call.part + 1
                    \/ parts[call.part].result = "ok" /\ ~(call.part < Len(parts)) /\ m.at = "ready" /\ m.part = 1
    <2>1. CASE parts[call.part].result = "bad"
      <3>1. PICK m : m = [call EXCEPT !.at = "interrupt", !.part = 1] /\ call' = m
        BY <1>1, <2>1
      <3>2. m = [op |-> call.op, offset |-> call.offset, length |-> call.length, at |-> "interrupt", part |-> 1,
                 answer |-> call.answer]
        BY <1>2, <3>1 DEF Calls
      <3>3. m \in Calls /\ m.op = call.op /\ m.offset = call.offset /\ m.length = call.length /\ m.at = "interrupt" /\ m.part = 1
        BY <1>2, <3>2 DEF Calls, Places
      <3> QED
        BY <2>1, <3>1, <3>3
    <2>2. CASE parts[call.part].result = "ok"
      <3>1. "ready" \in Places
        BY DEF Places
      <3>2. PICK m : m = NextPart("ready") /\ call' = m
        BY <1>1, <2>2
      <3> QED
        BY <1>1, <1>2, <2>2, <3>1, <3>2, NextPartIs
    <2> QED
      BY <1>3, <2>1, <2>2
  <1>5. Types'
    BY <1>1, <1>4 DEF Inv, Types, cached
  <1>6. CASE m.at # "ready"
    <2>1. m.at \in Awaited /\ m.at # "alone" /\ m.at # "add"
      BY <1>4, <1>6 DEF Awaited
    <2>2. Tasks'
      <3>1. \A i : Open(call, parts, i) => Open(m, parts, i)
        BY <2>1 DEF Open
      <3> QED
        BY <1>1, <1>2, <1>4, <2>1, <3>1, TasksKept
    <2>3. Progress(m, parts)
      <3>1. m.part <= Len(parts)
        BY <1>2, <1>3, <1>4, <1>6
      <3>2. m.at = "collect" => \A i \in DOMAIN parts : i < m.part => parts[i].result = "ok"
        BY <1>2, <1>3, <1>4
      <3>3. m.at # "drain"
        BY <1>4
      <3> QED
        BY <2>1, <3>1, <3>2, <3>3 DEF Progress
    <2>4. \A t \in Actors : transfer'[t].part # 0 => transfer'[t] = transfer[t] /\ transfer[t].part \in DOMAIN parts
      BY <1>1, <1>2, Busy
    <2>5. Same(parts, parts)
      BY DEF Same
    <2>6. Files' /\ Request' /\ Downloads'
      BY <1>1, <1>2, <1>4, <2>1, <2>4, <2>5, GoesOn
    <2> QED
      BY <1>1, <1>4, <1>5, <2>2, <2>3, <2>6 DEF Inv
  <1>7. CASE m.at = "ready"
    <2>1. /\ \A i \in DOMAIN parts : parts[i].result = "ok"
          /\ m.at \notin Awaited /\ m.at \notin Downloading /\ m.at # "idle" /\ m.at # "alone" /\ call.at \in Downloading
          /\ call.at # "alone" /\ call.at # "idle"
      BY <1>1, <1>2, <1>3, <1>4, <1>7 DEF Awaited, Downloading
    <2>2. Tasks'
      BY <1>1, <1>2, <1>4, <2>1, Ended
    <2>3. Progress(m, parts)
      BY <1>4, <1>7, <2>1 DEF Progress
    <2>4. PICK b \in Nat, e \in Nat : b = parts[1].offset /\ e = End(parts) /\ b < e
      <3>1. 1 \in DOMAIN parts /\ Len(parts) \in DOMAIN parts
        BY <1>2, <1>3
      <3>2. parts[Len(parts)].offset \in Nat /\ parts[Len(parts)].length \in Nat /\ parts[Len(parts)].length > 0 /\ parts[1].offset \in Nat
        BY <1>3, <3>1, PartsAre
      <3>3. parts[1].offset <= parts[Len(parts)].offset
        BY <2>1, <3>1 DEF Inv, Downloads, Laid
      <3> QED
        BY <3>2, <3>3 DEF End
    <2>5. \A u \in b + 1 .. e : u <= Len(local) /\ local[u] = "object"
      <3> SUFFICES ASSUME NEW u \in b + 1 .. e PROVE u <= Len(local) /\ local[u] = "object"
        OBVIOUS
      <3>1. PICK i \in DOMAIN parts : u \in parts[i].offset + 1 .. parts[i].offset + parts[i].length
        BY <2>1, <2>4 DEF Inv, Downloads, Laid
      <3> QED
        BY <2>1, <3>1 DEF Inv, Downloads, Filled
    <2>6. Len(local) = End(parts)
      <3>1. e \in b + 1 .. e
        BY <2>4
      <3>2. e <= Len(local) /\ Len(local) <= e /\ Len(local) \in Nat
        BY <2>1, <2>4, <2>5, <3>1, Known DEF Inv, Downloads
      <3> QED
        BY <2>4, <3>2
    <2>7. \A u \in parts[1].offset + 1 .. Len(local) : local[u] = "object"
      BY <2>4, <2>5, <2>6
    <2>8. Files' /\ Request' /\ Downloads'
      <3>1. call' = m /\ m.op = call.op /\ m.offset = call.offset /\ m.length = call.length /\ UNCHANGED <<cached, torn>>
        BY <1>1, <1>4
      <3> QED
        BY <1>7, <2>1, <2>6, <2>7, <3>1, Left
    <2> QED
      BY <1>1, <1>4, <1>5, <2>2, <2>3, <2>8 DEF Inv
  <1> QED
    BY <1>6, <1>7

LEMMA InterruptStep == Inv /\ Interrupt => Inv'
  <1> SUFFICES ASSUME Inv, Interrupt PROVE Inv'
    OBVIOUS
  <1>1. /\ call.at = "interrupt" /\ parts' = [parts EXCEPT ![call.part].interrupt = TRUE]
        /\ call' = NextPart("drain") /\ UNCHANGED <<cached, queue, transfer, torn>>
    BY DEF Interrupt
  <1>2. call.at \in Awaited /\ call.at # "alone" /\ call.part \in DOMAIN parts /\ call.part \in Nat \ {0} /\ call \in Calls
    BY <1>1, Known DEF Awaited, Calls
  <1>3. DOMAIN parts = 1 .. Len(parts) /\ Len(parts) \in Nat /\ parts \in Seq(Part)
    BY Known
  <1>4. PICK m : /\ m = call' /\ m \in Calls /\ m.op = call.op /\ m.offset = call.offset /\ m.length = call.length
                 /\ IF call.part < Len(parts) THEN m.at = "interrupt" /\ m.part = call.part + 1 ELSE m.at = "drain" /\ m.part = 1
    <2>1. "drain" \in Places
      BY DEF Places
    <2> QED
      BY <1>1, <1>2, <2>1, NextPartIs
  <1>5. PICK i, p, q, qs : /\ i = call.part /\ p = parts[i] /\ q = [p EXCEPT !.interrupt = TRUE]
                           /\ qs = [parts EXCEPT ![i] = q] /\ parts' = qs
    BY <1>1
  <1>6. /\ qs \in Seq(Part) /\ Same(parts, qs) /\ \A j \in DOMAIN parts : qs[j].result = parts[j].result
    <2>1. i \in DOMAIN parts
      BY <1>2, <1>5
    <2>2. p \in Part
      BY <1>3, <1>5, <2>1, PartsAre
    <2>3. q \in Part /\ q.offset = parts[i].offset /\ q.length = parts[i].length /\ q.result = p.result
      BY <1>5, <2>2, PartInterrupted
    <2>4. qs \in Seq(Part) /\ Same(parts, qs) /\ qs[i] = q /\ \A j \in DOMAIN parts : j # i => qs[j] = parts[j]
      <3>1. parts \in Seq(Part) /\ qs = [parts EXCEPT ![i] = q]
        BY <1>3, <1>5
      <3> QED
        BY ONLY <2>1, <2>3, <3>1, PartMarked, Zenon
    <2> QED
      BY <1>5, <2>3, <2>4
  <1>7. m.at \in Awaited /\ m.at # "alone" /\ m.at # "add" /\ m.at # "collect"
    BY <1>4 DEF Awaited
  <1>8. Types'
    <2>1. Len(qs) <= MaxSize /\ \A j \in DOMAIN qs : qs[j].offset + qs[j].length <= MaxSize
      BY <1>6 DEF Inv, Types, Same
    <2> QED
      BY <1>1, <1>4, <1>5, <1>6, <2>1 DEF Inv, Types, cached
  <1>9. Tasks'
    <2>1. \A j : Open(call, parts, j) => Open(m, qs, j)
      BY <1>6, <1>7 DEF Open, Same
    <2> QED
      BY <1>1, <1>2, <1>4, <1>5, <1>7, <2>1, TasksKept
  <1>10. Progress(m, qs)
    <2>1. m.part <= Len(qs)
      BY <1>2, <1>3, <1>4, <1>6 DEF Same
    <2>2. m.at = "drain" => \A j \in DOMAIN qs : ~(j < m.part)
      BY <1>3, <1>4, <1>6 DEF Same
    <2> QED
      BY <1>7, <2>1, <2>2 DEF Progress
  <1>11. \A t \in Actors : transfer'[t].part # 0 => transfer'[t] = transfer[t] /\ transfer[t].part \in DOMAIN parts
    BY <1>1, <1>2, Busy
  <1>12. \A j \in DOMAIN qs : qs[j].result = "ok" => parts[j].result = "ok"
    BY <1>6 DEF Same
  <1>13. Files' /\ Request' /\ Downloads'
    BY <1>1, <1>2, <1>4, <1>5, <1>6, <1>7, <1>11, <1>12, GoesOn
  <1> QED
    BY <1>4, <1>5, <1>8, <1>9, <1>10, <1>13 DEF Inv

LEMMA DrainStep == Inv /\ Drain => Inv'
  <1> SUFFICES ASSUME Inv, Drain PROVE Inv'
    OBVIOUS
  <1>1. /\ call.at = "drain" /\ parts[call.part].result # "none"
        /\ UNCHANGED <<cached, parts, queue, transfer>>
        /\ IF call.part < Len(parts) THEN call' = [call EXCEPT !.part = @ + 1] /\ UNCHANGED torn
           ELSE call' = [call EXCEPT !.at = "idle", !.answer = "error", !.part = 1] /\ torn' = TRUE
    BY DEF Drain
  <1>2. call.at \in Awaited /\ call.at # "alone" /\ call.part \in DOMAIN parts /\ call.part \in Nat \ {0} /\ call \in Calls
    BY <1>1, Known DEF Awaited, Calls
  <1>3. /\ DOMAIN parts = 1 .. Len(parts) /\ Len(parts) \in Nat /\ parts \in Seq(Part)
        /\ \A i \in DOMAIN parts : i < call.part => parts[i].result # "none"
    BY <1>1, Known DEF Inv, Progress
  <1>4. CASE call.part < Len(parts)
    <2>1. PICK n, m : n = call.part + 1 /\ m = [call EXCEPT !.part = n] /\ call' = m
      BY <1>1, <1>4
    <2>2. n \in Nat \ {0} /\ n <= Len(parts) /\ \A i \in DOMAIN parts : i < n => parts[i].result # "none"
      BY <1>1, <1>2, <1>3, <1>4, <2>1
    <2>3. m = [op |-> call.op, offset |-> call.offset, length |-> call.length, at |-> "drain", part |-> n,
               answer |-> call.answer]
      BY <1>1, <1>2, <2>1 DEF Calls
    <2>4. m \in Calls /\ m.op = call.op /\ m.offset = call.offset /\ m.length = call.length /\ m.at = "drain" /\ m.part = n
      BY <1>2, <2>2, <2>3 DEF Calls, Places
    <2>5. m.at \in Awaited /\ m.at # "alone" /\ m.at # "add" /\ m.at # "collect"
      BY <2>4 DEF Awaited
    <2>6. Types'
      BY <1>1, <1>4, <2>1, <2>4 DEF Inv, Types, cached
    <2>7. Tasks'
      <3>1. \A i : Open(call, parts, i) => Open(m, parts, i)
        BY <2>5 DEF Open
      <3> QED
        BY <1>1, <1>2, <2>1, <2>5, <3>1, TasksKept
    <2>8. Progress(m, parts)
      BY <2>2, <2>4, <2>5 DEF Progress
    <2>9. \A t \in Actors : transfer'[t].part # 0 => transfer'[t] = transfer[t] /\ transfer[t].part \in DOMAIN parts
      BY <1>1, <1>2, Busy
    <2>10. Same(parts, parts) /\ UNCHANGED <<cached, torn>>
      BY <1>1, <1>4 DEF Same
    <2>11. Files' /\ Request' /\ Downloads'
      BY <1>1, <1>2, <2>1, <2>4, <2>5, <2>9, <2>10, GoesOn
    <2> QED
      BY <1>1, <2>1, <2>6, <2>7, <2>8, <2>11 DEF Inv
  <1>5. CASE ~(call.part < Len(parts))
    <2>1. PICK m : m = [call EXCEPT !.at = "idle", !.answer = "error", !.part = 1] /\ call' = m /\ torn' = TRUE
      BY <1>1, <1>5
    <2>2. m = [op |-> call.op, offset |-> call.offset, length |-> call.length, at |-> "idle", part |-> 1, answer |-> "error"]
      BY <1>2, <2>1 DEF Calls
    <2>3. m \in Calls /\ m.op = call.op /\ m.offset = call.offset /\ m.at = "idle" /\ m.part = 1 /\ m.answer = "error"
      BY <1>2, <2>2 DEF Calls, Places
    <2>4. /\ \A i \in DOMAIN parts : parts[i].result # "none"
          /\ m.at \notin Awaited \cup {"alone"} /\ m.at \notin Awaited /\ m.at \notin Downloading /\ m.at # "ready"
      BY <1>1, <1>2, <1>3, <1>5, <2>3 DEF Awaited, Downloading
    <2>5. Types'
      BY <1>1, <2>1, <2>3 DEF Inv, Types, cached
    <2>6. Tasks'
      BY <1>1, <1>2, <2>1, <2>4, Ended
    <2>7. Progress(m, parts)
      BY <2>3, <2>4 DEF Progress
    <2>8. Files' /\ Request' /\ Downloads'
      BY <1>1, <2>1, <2>3, <2>4, GivesUp
    <2> QED
      BY <1>1, <2>1, <2>5, <2>6, <2>7, <2>8 DEF Inv
  <1> QED
    BY <1>4, <1>5
LEMMA RequestIs ==
  ASSUME Inv, NEW r \in Requests
  PROVE  /\ r.op \in {"read", "write", "append", "resize"} /\ r.offset \in -1 .. MaxSize /\ r.length \in 0 .. MaxSize
         /\ r.op # "append" => r.offset >= 0
         /\ r.length = 0 => r.op = "resize" /\ r.offset = 0
         /\ IF r.op = "append" THEN Len(truth) + r.length <= MaxSize ELSE r.offset + r.length <= MaxSize
  <1>1. MaxSize \in Nat /\ Lengths \subseteq Nat \ {0} /\ Len(truth) \in Nat /\ Len(local) \in Nat
    BY Known, LengthsPositive
  <1>2. CASE r \in {q \in [op : {"read", "write"}, offset : 0 .. MaxSize - 1, length : Lengths] : q.offset + q.length <= MaxSize}
    <2>1. r.op \in {"read", "write"} /\ r.offset \in 0 .. MaxSize - 1 /\ r.length \in Nat \ {0} /\ r.offset + r.length <= MaxSize
      BY <1>1, <1>2
    <2> QED
      BY <1>1, <2>1
  <1>3. CASE r \in {q \in [op : {"append"} \cap Disturbances, offset : {-1}, length : Lengths] :
                      Max(Len(truth), Len(local)) + q.length <= MaxSize}
    <2>1. r.op = "append" /\ r.offset = -1 /\ r.length \in Nat \ {0} /\ Max(Len(truth), Len(local)) + r.length <= MaxSize
      BY <1>1, <1>3
    <2>2. Len(truth) + r.length <= MaxSize
      BY <1>1, <2>1 DEF Max
    <2> QED
      BY <1>1, <2>1, <2>2
  <1>4. CASE r \in [op : {"resize"}, offset : {0}, length : 0 .. MaxSize]
    BY <1>1, <1>4
  <1> QED
    BY <1>2, <1>3, <1>4 DEF Requests

LEMMA BeginStep ==
  ASSUME Inv, NEW r \in Requests, Begin(r)
  PROVE  Inv'
  <1>1. PICK ps : /\ call.at = "idle" /\ ps = (IF InSync(r.offset, r.length) THEN <<>> ELSE FileParts(r.offset, r.length))
                  /\ parts' = ps
                  /\ call' = [op |-> r.op, offset |-> r.offset, length |-> r.length,
                              at |-> CASE Len(ps) = 0 -> "ready" [] Len(ps) = 1 -> "alone" [] Len(ps) > 1 -> "add",
                              part |-> 1, answer |-> "none"]
                  /\ transfer' = (IF Len(ps) = 1 THEN [transfer EXCEPT ![Caller].part = 1] ELSE transfer)
                  /\ UNCHANGED <<cached, queue, torn>>
    BY DEF Begin
  <1>2. PICK o, l : o = r.offset /\ l = r.length
    OBVIOUS
  <1>3. /\ r.op \in {"read", "write", "append", "resize"} /\ o \in -1 .. MaxSize /\ l \in 0 .. MaxSize
        /\ r.op # "append" => o >= 0
        /\ l = 0 => r.op = "resize" /\ o = 0
        /\ IF r.op = "append" THEN Len(truth) + l <= MaxSize ELSE o + l <= MaxSize
    BY <1>2, RequestIs
  <1>4. /\ Len(local) \in Nat /\ fileSize \in Nat /\ Len(truth) \in Nat /\ MaxSize \in Nat
        /\ Len(local) <= fileSize /\ fileSize <= MaxSize
    BY Known DEF Inv, Files
  <1>5. /\ call.at \notin Awaited /\ call.at \notin Downloading /\ call.at # "alone"
        /\ queue = <<>> /\ DOMAIN queue = {} /\ transfer \in [Actors -> Work]
        /\ \A t \in Actors : transfer[t] = Nothing
    <2>1. call.at \notin Awaited /\ call.at \notin Downloading /\ call.at # "alone"
      BY <1>1 DEF Awaited, Downloading
    <2>2. queue = <<>> /\ \A w \in Workers : transfer[w] = Nothing
      BY <2>1, Quiet
    <2>3. transfer[Caller] = Nothing
      BY <2>1 DEF Inv, Tasks
    <2>4. DOMAIN queue = {}
      BY <2>2
    <2> QED
      BY <2>1, <2>2, <2>3, <2>4 DEF Actors, Inv, Types
  <1>6. local' = local /\ fileSize' = fileSize /\ truth' = truth /\ torn' = torn /\ queue' = queue
    BY <1>1 DEF cached
  <1>7. BaseOf(call, local, parts) = Len(local)
    BY <1>5 DEF BaseOf
  <1>8. ASSUME NEW m \in Calls, call' = m, m.op = r.op, m.offset = o, m.length = l, m.part = 1, m.at \in {"ready", "alone", "add"},
               transfer' \in [Actors -> Work], ps \in Seq(Part), Len(ps) <= MaxSize,
               \A i \in DOMAIN ps : ps[i].offset + ps[i].length <= MaxSize, BaseOf(m, local, ps) = Len(local)
        PROVE  Types' /\ Files' /\ (m.at # "ready" => Request')
    <2>1. Types'
      BY <1>1, <1>5, <1>6, <1>8 DEF Inv, Types
    <2>2. Files'
      <3>1. BaseOf(m, local, ps) <= Len(local)
        BY <1>4, <1>8
      <3>2. parts' = ps /\ BaseOf(m, local, ps) = BaseOf(call, local, parts)
        BY <1>1, <1>7, <1>8
      <3> QED
        BY <1>6, <1>8, <3>1, <3>2 DEF Inv, Files
    <2>3. m.at # "ready" => Request'
      BY <1>3, <1>6, <1>8 DEF Request
    <2> QED
      BY <2>1, <2>2, <2>3
  <1>9. CASE InSync(o, l)
    <2>1. ps = <<>> /\ ps \in Seq(Part) /\ Len(ps) = 0 /\ DOMAIN ps = {}
      BY <1>1, <1>2, <1>9, EmptySeq
    <2>2. PICK m : m = [op |-> r.op, offset |-> o, length |-> l, at |-> "ready", part |-> 1, answer |-> "none"] /\ call' = m
      <3>1. (CASE Len(ps) = 0 -> "ready" [] Len(ps) = 1 -> "alone" [] Len(ps) > 1 -> "add") = "ready"
        <4>1. Len(ps) = 0 /\ ~(Len(ps) = 1) /\ ~(Len(ps) > 1)
          BY <2>1
        <4> QED
          BY <4>1
      <3> QED
        BY <1>1, <1>2, <3>1
    <2>3. m \in Calls /\ m.op = r.op /\ m.offset = o /\ m.length = l /\ m.at = "ready" /\ m.part = 1
      BY <1>3, <2>2 DEF Calls, Places
    <2>4. transfer' = transfer
      BY <1>1, <2>1
    <2>5. m.at \notin Downloading /\ m.at \notin Awaited
      BY <2>3 DEF Downloading, Awaited
    <2>6. BaseOf(m, local, ps) = Len(local)
      BY <2>5 DEF BaseOf
    <2>7. Types' /\ Files'
      <3>1. Len(ps) <= MaxSize /\ \A i \in DOMAIN ps : ps[i].offset + ps[i].length <= MaxSize
        BY <1>4, <2>1
      <3>2. m.at \in {"ready", "alone", "add"} /\ transfer' \in [Actors -> Work]
        BY <1>5, <2>3, <2>4
      <3> QED
        BY <1>8, <2>1, <2>2, <2>3, <2>6, <3>1, <3>2
    <2>8. Enough(m, Len(local), fileSize)
      BY <1>3, <1>4, <1>9, <2>3 DEF Enough, InSync, Min
    <2>9. Request'
      BY <1>3, <1>6, <2>2, <2>3, <2>8 DEF Request
    <2>10. Tasks'
      <3>1. Workers \subseteq Actors /\ Caller \in Actors
        BY DEF Actors
      <3> QED
        BY <1>5, <1>6, <2>2, <2>3, <2>4, <3>1 DEF Tasks
    <2>11. Progress(m, ps)
      BY <2>1, <2>3, <2>5 DEF Progress
    <2>12. Downloads'
      BY <2>2, <2>5 DEF Downloads
    <2> QED
      BY <1>1, <2>2, <2>7, <2>9, <2>10, <2>11, <2>12 DEF Inv
  <1>10. CASE ~InSync(o, l)
    <2>1. /\ ps \in Seq(Part) /\ Len(ps) <= MaxSize /\ Laid(ps, Len(local), End(ps))
          /\ Len(local) < End(ps) /\ End(ps) <= fileSize /\ (o + l <= End(ps) \/ fileSize <= End(ps))
          /\ \A i \in DOMAIN ps : ps[i].result = "none"
      <3>1. ps = FileParts(o, l) /\ Types
        BY <1>1, <1>2, <1>10 DEF Inv
      <3> QED
        BY <1>3, <1>4, <1>10, <3>1, FilePartsLaid
    <2>2. /\ Len(ps) \in Nat /\ Len(ps) > 0 /\ DOMAIN ps = 1 .. Len(ps)
          /\ \A i \in DOMAIN ps : ps[i].offset \in Nat /\ ps[i].length \in Nat \ {0}
      BY <2>1, PartsAre DEF Laid
    <2>3. PICK a, m : /\ a = (IF Len(ps) = 1 THEN "alone" ELSE "add") /\ call' = m
                      /\ m = [op |-> r.op, offset |-> o, length |-> l, at |-> a, part |-> 1, answer |-> "none"]
      <3>1. Len(ps) # 0 /\ (Len(ps) # 1 => Len(ps) > 1)
        BY <2>2
      <3>2. PICK a : a = (IF Len(ps) = 1 THEN "alone" ELSE "add")
        OBVIOUS
      <3>3. (CASE Len(ps) = 0 -> "ready" [] Len(ps) = 1 -> "alone" [] Len(ps) > 1 -> "add") = a
        <4>1. CASE Len(ps) = 1
          <5>1. ~(Len(ps) = 0) /\ ~(Len(ps) > 1)
            BY <4>1
          <5> QED
            BY <3>2, <4>1, <5>1
        <4>2. CASE Len(ps) # 1
          BY <3>1, <3>2, <4>2
        <4> QED
          BY <4>1, <4>2
      <3> QED
        BY <1>1, <1>2, <3>2, <3>3
    <2>4. a \in {"alone", "add"} /\ m \in Calls /\ m.op = r.op /\ m.offset = o /\ m.length = l /\ m.at = a /\ m.part = 1
      BY <1>3, <2>3 DEF Calls, Places
    <2>5. /\ m.at \in Downloading /\ (m.at = "add" <=> m.at \in Awaited) /\ (Len(ps) = 1 <=> m.at = "alone")
          /\ m.at # "ready" /\ m.at # "idle" /\ m.at # "collect" /\ m.at # "drain"
      BY <2>3, <2>4 DEF Downloading, Awaited
    <2>6. ps[1].offset = Len(local)
      BY <2>1 DEF Laid
    <2>7. BaseOf(m, local, ps) = Len(local)
      BY <2>5, <2>6 DEF BaseOf
    <2>8. /\ transfer' \in [Actors -> Work] /\ \A w \in Workers : transfer'[w] = Nothing
          /\ transfer'[Caller] = IF Len(ps) = 1 THEN [part |-> 1, written |-> 0] ELSE Nothing
      <3>1. Caller \in Actors /\ Workers \subseteq Actors /\ Caller \notin Workers
        BY Threads DEF Actors
      <3>2. CASE Len(ps) # 1
        BY <1>1, <1>5, <3>1, <3>2
      <3>3. CASE Len(ps) = 1
        <4>1. PICK n : n = [transfer[Caller] EXCEPT !.part = 1] /\ transfer' = [transfer EXCEPT ![Caller] = n]
          BY <1>1, <3>3
        <4>2. n = [part |-> 1, written |-> 0]
          BY <1>5, <3>1, <4>1 DEF Nothing
        <4>3. n \in Work
          BY <4>2 DEF Work
        <4> QED
          BY <1>5, <3>1, <3>3, <4>1, <4>2, <4>3
      <3> QED
        BY <3>2, <3>3
    <2>9. Types' /\ Files' /\ Request'
      <3>1. \A i \in DOMAIN ps : ps[i].offset + ps[i].length <= MaxSize
        <4> SUFFICES ASSUME NEW i \in DOMAIN ps PROVE ps[i].offset + ps[i].length <= MaxSize
          OBVIOUS
        <4>1. ps[i].offset + ps[i].length <= End(ps)
          BY <2>1 DEF Laid
        <4>2. PICK e : e = End(ps)
          OBVIOUS
        <4>3. e \in Nat
          BY <2>2, <4>2 DEF End
        <4> QED
          BY <1>4, <2>1, <2>2, <4>1, <4>2, <4>3
      <3>2. m.at \in {"ready", "alone", "add"}
        BY <2>4
      <3> QED
        BY <1>8, <2>1, <2>3, <2>4, <2>5, <2>7, <2>8, <3>1, <3>2
    <2>10. Tasks'
      <3>1. Len(ps) = 1 => transfer'[Caller].part = 1
        BY <2>8
      <3> QED
        BY <1>1, <1>5, <1>6, <2>3, <2>5, <2>8, <3>1 DEF Tasks
    <2>11. Progress(m, ps)
      BY <2>1, <2>2, <2>4, <2>5 DEF Progress
    <2>12. Downloads'
      <3>1. Enough(m, End(ps), fileSize)
        <4>1. PICK e : e = End(ps) /\ e \in Nat
          BY <2>2 DEF End
        <4>2. e >= Min(o + l, fileSize)
          BY <1>3, <1>4, <2>1, <4>1 DEF Min
        <4> QED
          BY <2>4, <4>1, <4>2 DEF Enough
      <3>2. \A t \in Actors : transfer'[t].part # 0 =>
               /\ transfer'[t].part = 1 /\ transfer'[t].written = 0 /\ t = Caller /\ m.at = "alone"
        BY <2>5, <2>8 DEF Actors, Nothing
      <3>3. 1 \in DOMAIN ps /\ ps[1].length >= 0 /\ ps[1].offset + 1 .. ps[1].offset + 0 = {}
        BY <2>2
      <3>4. \A t \in Actors : transfer'[t].part # 0 =>
               /\ transfer'[t].written <= ps[transfer'[t].part].length
               /\ Filled(local, ps[transfer'[t].part].offset, transfer'[t].written)
        BY <2>2, <3>2, <3>3 DEF Filled
      <3>5. m.at = "alone" => Len(local) = ps[1].offset + transfer'[Caller].written
        BY <1>4, <2>5, <2>6, <2>8
      <3>6. Len(local) <= End(ps)
        <4>1. PICK e : e = End(ps) /\ e \in Nat
          BY <2>2 DEF End
        <4> QED
          BY <1>4, <2>1, <4>1
      <3> QED
        BY <1>1, <1>6, <2>1, <2>3, <2>6, <3>1, <3>4, <3>5, <3>6 DEF Downloads
    <2> QED
      BY <1>1, <2>3, <2>9, <2>10, <2>11, <2>12 DEF Inv
  <1> QED
    BY <1>9, <1>10
(* A write to both, the file and what the program expects.                  *)
LEMMA BothWritten ==
  ASSUME NEW f \in Seq(Data), NEW g \in Seq(Data), NEW x \in Nat, NEW y \in Nat, NEW l \in Nat, NEW size \in Nat,
         MaxSize \in Nat, Len(f) <= size, size <= Len(g), Len(g) <= MaxSize, x <= y, y + l <= MaxSize,
         NEW h, h = Overlaid(f, x, l, "written"), NEW k, k = Overlaid(g, y, l, "written"), NEW n, n = Max(size, Len(h))
  PROVE  /\ h \in Seq(Data) /\ k \in Seq(Data) /\ n \in Nat /\ Len(h) \in Nat
         /\ Len(h) <= n /\ n <= Len(k) /\ Len(k) <= MaxSize
         /\ Prefix(Len(f), f, size, g) /\ x = y /\ Len(f) >= Min(x + l, size) => Prefix(Len(h), h, n, k)
  <1>1. PICK w \in Data : w = "written" /\ h = Overlaid(f, x, l, w) /\ k = Overlaid(g, y, l, w)
    BY DEF Data
  <1>2. /\ h \in Seq(Data) /\ Len(f) \in Nat /\ Len(h) \in Nat
        /\ Len(h) = (IF Len(f) > x + l THEN Len(f) ELSE x + l)
        /\ \A i \in 1 .. Len(h) : h[i] = IF i \in x + 1 .. x + l THEN "written" ELSE IF i <= Len(f) THEN f[i] ELSE "zero"
    <2>1. LiesOver(f, x, l, w, h)
      BY <1>1, OverlaidIs
    <2> QED
      BY <1>1, <2>1 DEF LiesOver
  <1>3. /\ k \in Seq(Data) /\ Len(g) \in Nat /\ Len(k) \in Nat
        /\ Len(k) = (IF Len(g) > y + l THEN Len(g) ELSE y + l)
        /\ \A i \in 1 .. Len(k) : k[i] = IF i \in y + 1 .. y + l THEN "written" ELSE IF i <= Len(g) THEN g[i] ELSE "zero"
    <2>1. LiesOver(g, y, l, w, k)
      BY <1>1, OverlaidIs
    <2> QED
      BY <1>1, <2>1 DEF LiesOver
  <1>4. PICK a \in Nat, b \in Nat, c \in Nat, d \in Nat : a = Len(f) /\ b = Len(g) /\ c = Len(h) /\ d = Len(k)
    BY <1>2, <1>3
  <1>5. n \in Nat /\ n = (IF size > c THEN size ELSE c)
    BY <1>4 DEF Max
  <1>6. c <= n /\ n <= d /\ d <= MaxSize
    BY <1>2, <1>3, <1>4, <1>5
  <1>7. ASSUME Prefix(a, f, size, g), x = y, a >= Min(x + l, size)
        PROVE  Prefix(c, h, n, k)
    <2>1. size = b /\ (\A i \in 1 .. a : f[i] = g[i]) /\ (\A i \in a + 1 .. size : g[i] = "object")
      BY <1>4, <1>7 DEF Prefix
    <2>2. a >= x + l \/ a >= b
      BY <1>7, <2>1 DEF Min
    <2>3. n = d
      BY <1>2, <1>3, <1>4, <1>5, <1>7, <2>1
    <2>4. ASSUME NEW i \in 1 .. c PROVE h[i] = k[i]
      <3>1. i \in 1 .. d
        BY <1>5, <1>6
      <3>2. CASE i \in x + 1 .. x + l
        BY <1>2, <1>3, <1>4, <1>7, <3>1, <3>2
      <3>3. CASE i \notin x + 1 .. x + l /\ i <= a
        <4>1. i <= b /\ i \in 1 .. a
          BY <1>4, <3>3
        <4> QED
          BY <1>2, <1>3, <1>4, <1>7, <2>1, <3>1, <3>3, <4>1
      <3>4. CASE i \notin x + 1 .. x + l /\ ~(i <= a)
        <4>1. ~(i <= b)
          BY <1>2, <1>4, <2>2, <3>4
        <4> QED
          BY <1>2, <1>3, <1>4, <1>7, <3>1, <3>4, <4>1
      <3> QED
        BY <3>2, <3>3, <3>4
    <2>5. ASSUME NEW i \in c + 1 .. n PROVE k[i] = "object"
      <3>1. i \in 1 .. d /\ i > a /\ i > x + l /\ i <= b
        BY <1>2, <1>4, <1>5, <1>6, <2>1
      <3>2. k[i] = g[i]
        BY <1>3, <1>4, <1>7, <3>1
      <3> QED
        BY <1>4, <2>1, <3>1, <3>2
    <2> QED
      BY <1>4, <2>3, <2>4, <2>5 DEF Prefix
  <1> QED
    BY <1>2, <1>3, <1>4, <1>5, <1>6, <1>7

LEMMA CompleteStep == Inv /\ Complete => Inv'
  <1> SUFFICES ASSUME Inv, Complete PROVE Inv'
    OBVIOUS
  <1>1. /\ call.at = "ready" /\ UNCHANGED <<parts, queue, transfer>>
        /\ \/ call.op = "read" /\ UNCHANGED <<cached, torn>>
           \/ /\ call.op = "resize" /\ local' = Resized(local, call.length) /\ truth' = Resized(truth, call.length)
              /\ fileSize' = call.length /\ UNCHANGED torn
           \/ /\ call.op = "write"
              /\ local' = Overlaid(local, call.offset, call.length, "written")
              /\ truth' = Overlaid(truth, call.offset, call.length, "written")
              /\ fileSize' = Max(fileSize, Len(local')) /\ (torn' <=> torn)
           \/ /\ call.op = "append"
              /\ local' = Overlaid(local, Len(local), call.length, "written")
              /\ truth' = Overlaid(truth, Len(truth), call.length, "written")
              /\ fileSize' = Max(fileSize, Len(local')) /\ (torn' <=> torn \/ Len(local) < fileSize)
    <2>1. call.op \in {"read", "resize", "write", "append"} /\ torn \in BOOLEAN
      BY DEF Inv, Types, Calls
    <2>2. CASE call.op = "read"
      BY <2>2 DEF Complete
    <2>3. CASE call.op = "resize"
      BY <2>3 DEF Complete
    <2>4. CASE call.op = "write"
      BY <2>4 DEF Complete
    <2>5. CASE call.op = "append"
      BY <2>5 DEF Complete
    <2> QED
      BY <2>1, <2>2, <2>3, <2>4, <2>5
  <1>2. call \in Calls /\ Len(local) \in Nat /\ fileSize \in Nat /\ Len(truth) \in Nat /\ MaxSize \in Nat
    BY Known
  <1>3. PICK m : m = [call EXCEPT !.at = "idle", !.answer = "ok"] /\ call' = m
    BY DEF Complete
  <1>4. m \in Calls /\ m.op = call.op /\ m.offset = call.offset /\ m.length = call.length /\ m.at = "idle" /\ m.part = call.part
    <2>1. m = [op |-> call.op, offset |-> call.offset, length |-> call.length, at |-> "idle", part |-> call.part, answer |-> "ok"]
      BY <1>2, <1>3 DEF Calls
    <2> QED
      BY <1>2, <2>1 DEF Calls, Places
  <1>5. /\ call.at \notin Awaited /\ call.at \notin Downloading /\ call.at # "alone" /\ call.at # "idle"
        /\ m.at \notin Awaited /\ m.at \notin Downloading /\ m.at # "alone" /\ m.at # "ready"
    BY <1>1, <1>4 DEF Awaited, Downloading
  <1>6. Tasks'
    <2>1. queue = <<>> /\ DOMAIN queue = {} /\ \A w \in Workers : transfer[w] = Nothing
      BY <1>5, Quiet
    <2>2. transfer[Caller] = Nothing
      BY <1>5 DEF Inv, Tasks
    <2> QED
      BY <1>1, <1>3, <1>5, <2>1, <2>2 DEF Tasks
  <1>7. Progress(m, parts)
    BY <1>4, <1>5 DEF Inv, Progress
  <1>8. Downloads'
    BY <1>3, <1>5 DEF Downloads
  <1>9. BaseOf(call, local, parts) = Len(local) /\ BaseOf(m, local', parts') = Len(local')
    BY <1>5 DEF BaseOf
  <1>10. Enough(call, Len(local), fileSize)
    BY <1>1 DEF Inv, Request
  <1>11. Len(local) <= fileSize /\ fileSize <= Len(truth) /\ Len(truth) <= MaxSize /\ (torn \/ Prefix(Len(local), local, fileSize, truth))
    BY <1>9 DEF Inv, Files
  <1>12. /\ call.length \in Nat /\ call.length <= MaxSize
         /\ call.op # "append" => call.offset \in Nat /\ call.offset + call.length <= MaxSize
         /\ call.op = "append" => Len(truth) + call.length <= MaxSize
    BY <1>2, <1>5 DEF Calls, Inv, Request
  <1>13. /\ local' \in Seq(Data) /\ truth' \in Seq(Data) /\ fileSize' \in Nat /\ torn' \in BOOLEAN
         /\ Len(local') <= fileSize' /\ fileSize' <= Len(truth') /\ Len(truth') <= MaxSize
         /\ torn' \/ Prefix(Len(local'), local', fileSize', truth')
    <2>1. local \in Seq(Data) /\ truth \in Seq(Data) /\ torn \in BOOLEAN
      BY DEF Inv, Types
    <2>2. CASE call.op = "read"
      BY <1>1, <1>2, <1>11, <2>1, <2>2 DEF cached
    <2>3. CASE call.op = "resize"
      <3>1. PICK n \in Nat : n = call.length /\ n <= MaxSize
        BY <1>12
      <3>2. local' = Resized(local, n) /\ truth' = Resized(truth, n) /\ fileSize' = n /\ (torn' <=> torn) /\ torn' \in BOOLEAN
        BY <1>1, <2>1, <2>3, <3>1
      <3>3. local' \in Seq(Data) /\ Len(local') = n /\ \A i \in 1 .. n : local'[i] = IF i <= Len(local) THEN local[i] ELSE "zero"
        <4>1. CutTo(local, n, local')
          BY <2>1, <3>2, ResizedIs
        <4> QED
          BY <4>1 DEF CutTo
      <3>4. truth' \in Seq(Data) /\ Len(truth') = n /\ \A i \in 1 .. n : truth'[i] = IF i <= Len(truth) THEN truth[i] ELSE "zero"
        <4>1. CutTo(truth, n, truth')
          BY <2>1, <3>2, ResizedIs
        <4> QED
          BY <4>1 DEF CutTo
      <3>5. Prefix(Len(local), local, fileSize, truth) => Prefix(n, local', n, truth')
        <4> SUFFICES ASSUME Prefix(Len(local), local, fileSize, truth) PROVE Prefix(n, local', n, truth')
          OBVIOUS
        <4>1. fileSize = Len(truth) /\ \A i \in 1 .. Len(local) : local[i] = truth[i]
          BY DEF Prefix
        <4>2. Len(local) >= n \/ Len(local) >= Len(truth)
          <5>1. Len(local) >= Min(call.offset + n, fileSize)
            BY <1>10, <2>3, <3>1 DEF Enough
          <5> QED
            BY <1>2, <1>12, <2>3, <4>1, <5>1 DEF Min
        <4>3. ASSUME NEW i \in 1 .. n PROVE local'[i] = truth'[i]
          <5>1. CASE i <= Len(local)
            <6>1. i \in 1 .. Len(local) /\ i <= Len(truth)
              BY <1>2, <1>11, <4>1, <5>1
            <6> QED
              BY <3>3, <3>4, <4>1, <5>1, <6>1
          <5>2. CASE ~(i <= Len(local))
            <6>1. ~(i <= Len(truth))
              BY <1>2, <4>2, <5>2
            <6> QED
              BY <3>3, <3>4, <5>2, <6>1
          <5> QED
            BY <5>1, <5>2
        <4>4. n + 1 .. n = {}
          OBVIOUS
        <4> QED
          BY <3>4, <4>3, <4>4 DEF Prefix
      <3> QED
        BY <1>11, <3>1, <3>2, <3>3, <3>4, <3>5
    <2>4. ASSUME NEW x \in Nat, NEW y \in Nat, x <= y, y + call.length <= MaxSize,
                 local' = Overlaid(local, x, call.length, "written"), truth' = Overlaid(truth, y, call.length, "written"),
                 fileSize' = Max(fileSize, Len(local'))
          PROVE  /\ local' \in Seq(Data) /\ truth' \in Seq(Data) /\ fileSize' \in Nat
                 /\ Len(local') <= fileSize' /\ fileSize' <= Len(truth') /\ Len(truth') <= MaxSize
                 /\ Prefix(Len(local), local, fileSize, truth) /\ x = y /\ Len(local) >= Min(x + call.length, fileSize) =>
                      Prefix(Len(local'), local', fileSize', truth')
      BY <1>2, <1>11, <1>12, <2>1, <2>4, BothWritten
    <2>5. CASE call.op = "write"
      <3>1. PICK x \in Nat : x = call.offset /\ x <= x /\ x + call.length <= MaxSize
        BY <1>12, <2>5
      <3>2. Len(local) >= Min(x + call.length, fileSize)
        BY <1>10, <2>5, <3>1 DEF Enough
      <3>3. /\ local' = Overlaid(local, x, call.length, "written") /\ truth' = Overlaid(truth, x, call.length, "written")
            /\ fileSize' = Max(fileSize, Len(local')) /\ (torn' <=> torn)
        BY <1>1, <2>5, <3>1
      <3>4. torn' \in BOOLEAN
        BY <2>5 DEF Complete, Inv, Types
      <3> QED
        BY <1>11, <2>4, <3>1, <3>2, <3>3, <3>4
    <2>6. CASE call.op = "append"
      <3>1. /\ local' = Overlaid(local, Len(local), call.length, "written")
            /\ truth' = Overlaid(truth, Len(truth), call.length, "written")
            /\ fileSize' = Max(fileSize, Len(local')) /\ (torn' <=> torn \/ Len(local) < fileSize)
        BY <1>1, <2>6
      <3>2. Len(local) <= Len(truth) /\ Len(truth) + call.length <= MaxSize
        BY <1>2, <1>11, <1>12, <2>6
      <3>3. /\ local' \in Seq(Data) /\ truth' \in Seq(Data) /\ fileSize' \in Nat
            /\ Len(local') <= fileSize' /\ fileSize' <= Len(truth') /\ Len(truth') <= MaxSize
            /\ Prefix(Len(local), local, fileSize, truth) /\ Len(local) = Len(truth) /\ Len(local) >= Min(Len(local) + call.length, fileSize) =>
                      Prefix(Len(local'), local', fileSize', truth')
        BY <1>2, <2>4, <3>1, <3>2
      <3>4. torn' \in BOOLEAN
        BY <2>6 DEF Complete, Inv, Types
      <3>5. ~torn' => Prefix(Len(local), local, fileSize, truth) /\ Len(local) = Len(truth) /\ Len(local) >= Min(Len(local) + call.length, fileSize)
        <4> SUFFICES ASSUME ~torn' PROVE Prefix(Len(local), local, fileSize, truth) /\ Len(local) = Len(truth) /\ Len(local) >= Min(Len(local) + call.length, fileSize)
          OBVIOUS
        <4>1. ~torn /\ ~(Len(local) < fileSize)
          BY <3>1
        <4>2. Prefix(Len(local), local, fileSize, truth)
          BY <1>11, <4>1
        <4>3. fileSize = Len(truth)
          BY <4>2 DEF Prefix
        <4> QED
          BY <1>2, <1>11, <1>12, <4>1, <4>2, <4>3 DEF Min
      <3> QED
        BY <3>3, <3>4, <3>5
    <2> QED
      BY <1>1, <2>2, <2>3, <2>5, <2>6
  <1>14. Types'
    BY <1>1, <1>3, <1>4, <1>13 DEF Inv, Types
  <1>15. Files'
    <2>1. Len(local') \in Nat
      BY <1>13, LenProperties
    <2>2. Len(local') <= Len(local') /\ Len(local') + 1 .. Len(local') = {}
      BY <2>1
    <2> QED
      BY <1>3, <1>9, <1>13, <2>2 DEF Files
  <1>16. Request'
    <2>1. m.op = "read" => Enough(m, Len(local'), fileSize')
      <3>1. m.op = "read" => local' = local /\ fileSize' = fileSize
        BY <1>1, <1>4 DEF cached
      <3> QED
        BY <1>4, <1>10, <3>1 DEF Enough
    <2> QED
      BY <1>3, <1>4, <1>5, <2>1 DEF Inv, Request
  <1> QED
    BY <1>1, <1>3, <1>6, <1>7, <1>8, <1>14, <1>15, <1>16 DEF Inv
(* An open part ends: the rest of the callback's bookkeeping holds.         *)
LEMMA OneEnds ==
  ASSUME Inv, NEW i, Open(call, parts, i), NEW r \in {"ok", "bad"},
         NEW qs, qs = [parts EXCEPT ![i].result = r]
  PROVE  /\ qs \in Seq(Part) /\ Same(parts, qs) /\ qs[i].result = r /\ \A j \in DOMAIN parts : j # i => qs[j] = parts[j]
         /\ Progress(call, qs) /\ \A j : j # i /\ Open(call, parts, j) => Open(call, qs, j)
         /\ Len(qs) <= MaxSize /\ \A j \in DOMAIN qs : qs[j].offset + qs[j].length <= MaxSize
  <1>1. i \in DOMAIN parts /\ call.at \in Awaited /\ (call.at = "add" => i < call.part) /\ parts[i].result = "none"
    BY DEF Open
  <1>2. DOMAIN parts = 1 .. Len(parts) /\ Len(parts) \in Nat /\ parts \in Seq(Part) /\ call.part \in Nat
    BY <1>1, Known DEF Calls
  <1>0. PICK p \in Part : p = parts[i]
    BY <1>1, <1>2, PartsAre
  <1>3. PICK q : p = parts[i] /\ q = [p EXCEPT !.result = r] /\ qs = [parts EXCEPT ![i] = q]
    BY <1>0
  <1>4. q \in Part /\ q.offset = parts[i].offset /\ q.length = parts[i].length /\ q.result = r
    <2>1. q = [p EXCEPT !.result = r]
      BY <1>3
    <2>2. q \in Part /\ q.offset = p.offset /\ q.length = p.length /\ q.result = r
      BY ONLY <2>1, PartEnded, Zenon
    <2> QED
      BY <1>3, <2>2
  <1>5. qs \in Seq(Part) /\ Same(parts, qs) /\ qs[i] = q /\ \A j \in DOMAIN parts : j # i => qs[j] = parts[j]
    <2>1. parts \in Seq(Part) /\ qs = [parts EXCEPT ![i] = q]
      BY <1>2, <1>3
    <2> QED
      BY ONLY <1>1, <1>4, <2>1, PartMarked, Zenon
  <1>6. Progress(call, qs)
    <2>1. DOMAIN qs = DOMAIN parts /\ Len(qs) = Len(parts)
      BY <1>5 DEF Same
    <2>2. ASSUME NEW j \in DOMAIN qs
          PROVE  /\ call.at = "add" /\ j >= call.part => qs[j].result = "none"
                 /\ call.at = "collect" /\ j < call.part => qs[j].result = "ok"
                 /\ call.at = "drain" /\ j < call.part => qs[j].result # "none"
      <3>1. CASE j = i
        <4>1. call.at = "add" => ~(j >= call.part)
          BY <1>1, <1>2, <3>1
        <4>2. call.at = "collect" => ~(j < call.part)
          BY <1>1, <3>1 DEF Inv, Progress
        <4>3. qs[j].result # "none"
          BY <1>4, <1>5, <3>1
        <4> QED
          BY <4>1, <4>2, <4>3
      <3>2. CASE j # i
        BY <1>5, <2>1, <3>2 DEF Inv, Progress
      <3> QED
        BY <3>1, <3>2
    <2>3. call.part <= Len(qs)
      BY <1>1, <2>1 DEF Inv, Progress
    <2> QED
      BY <1>1, <2>2, <2>3 DEF Progress
  <1>7. \A j : j # i /\ Open(call, parts, j) => Open(call, qs, j)
    BY <1>5 DEF Open, Same
  <1>8. Len(qs) <= MaxSize /\ \A j \in DOMAIN qs : qs[j].offset + qs[j].length <= MaxSize
    BY <1>5 DEF Same, Inv, Types
  <1> QED
    BY <1>4, <1>5, <1>6, <1>7, <1>8

LEMMA TakeStep ==
  ASSUME Inv, NEW w \in Workers, Take(w)
  PROVE  Inv'
  <1>1. PICK h : /\ h = Head(queue) /\ transfer[w].part = 0 /\ queue # <<>> /\ queue' = Tail(queue)
                 /\ IF parts[h].interrupt THEN parts' = [parts EXCEPT ![h].result = "bad"] /\ UNCHANGED transfer
                    ELSE transfer' = [transfer EXCEPT ![w].part = h] /\ UNCHANGED parts
                 /\ UNCHANGED <<cached, call, torn>>
    BY DEF Take
  <1>2. PICK n \in Nat : /\ n = Len(queue) /\ n > 0 /\ DOMAIN queue = 1 .. n /\ h = queue[1]
                         /\ queue' \in Seq(Nat) /\ DOMAIN queue' = 1 .. n - 1 /\ \A i \in 1 .. n - 1 : queue'[i] = queue[i + 1]
    <2>1. queue \in Seq(Nat)
      BY DEF Inv, Types
    <2> QED
      BY <1>1, <2>1, EmptySeq, LenProperties, HeadTailProperties
  <1>3. /\ 1 \in DOMAIN queue /\ Open(call, parts, h) /\ h \in DOMAIN parts /\ call.at \in Awaited /\ call.at # "alone"
        /\ parts[h].result = "none"
    <2>1. 1 \in DOMAIN queue
      BY <1>2
    <2> QED
      BY <1>2, <2>1 DEF Inv, Tasks, Open, Awaited
  <1>4. /\ \A i \in DOMAIN queue' : queue'[i] # h /\ Open(call, parts, queue'[i])
        /\ \A i, j \in DOMAIN queue' : queue'[i] = queue'[j] => i = j
    <2>1. \A i \in DOMAIN queue' : i + 1 \in DOMAIN queue /\ i + 1 # 1 /\ queue'[i] = queue[i + 1] /\ i \in Nat
      BY <1>2
    <2>2. \A i \in DOMAIN queue' : queue'[i] # h /\ Open(call, parts, queue'[i])
      BY <1>2, <1>3, <2>1 DEF Inv, Tasks
    <2>3. \A i, j \in DOMAIN queue' : queue'[i] = queue'[j] => i + 1 = j + 1
      BY <2>1 DEF Inv, Tasks
    <2> QED
      BY <2>1, <2>2, <2>3
  <1>5. \A v \in Workers : transfer[v] = Nothing \/ (Open(call, parts, transfer[v].part) /\ transfer[v].part # h)
    BY <1>2, <1>3 DEF Inv, Tasks
  <1>6. /\ \A v \in Workers : transfer[v] # Nothing =>
             /\ \A i \in DOMAIN queue' : queue'[i] # transfer[v].part
             /\ \A u \in Workers : u # v => transfer[u].part # transfer[v].part
    <2>1. \A i \in DOMAIN queue' : i + 1 \in DOMAIN queue /\ queue'[i] = queue[i + 1]
      BY <1>2
    <2> QED
      BY <2>1 DEF Inv, Tasks
  <1>7. call' = call /\ torn' = torn /\ local' = local /\ fileSize' = fileSize /\ truth' = truth
    BY <1>1 DEF cached
  <1>8. transfer[Caller] = Nothing /\ Workers \subseteq Actors /\ Caller \in Actors /\ Caller \notin Workers /\ Nothing.part = 0
    BY <1>3, Threads DEF Inv, Tasks, Actors, Nothing
  <1>9. Same(parts, parts)
    BY DEF Same
  <1>10. CASE parts[h].interrupt
    <2>1. PICK qs : qs = [parts EXCEPT ![h].result = "bad"] /\ parts' = qs /\ transfer' = transfer
      BY <1>1, <1>10
    <2>2. /\ qs \in Seq(Part) /\ Same(parts, qs) /\ qs[h].result = "bad" /\ \A j \in DOMAIN parts : j # h => qs[j] = parts[j]
          /\ Progress(call, qs) /\ \A j : j # h /\ Open(call, parts, j) => Open(call, qs, j)
          /\ Len(qs) <= MaxSize /\ \A j \in DOMAIN qs : qs[j].offset + qs[j].length <= MaxSize
      <3>1. PICK r \in {"ok", "bad"} : r = "bad" /\ qs = [parts EXCEPT ![h].result = r]
        BY <2>1
      <3> QED
        BY <1>3, <3>1, OneEnds, Zenon
    <2>3. Types'
      BY <1>2, <1>7, <2>1, <2>2 DEF Inv, Types
    <2>4. Tasks'
      BY <1>3, <1>4, <1>5, <1>6, <1>7, <1>8, <2>1, <2>2 DEF Tasks
    <2>5. Files' /\ Request' /\ Downloads'
      <3>1. \A j \in DOMAIN qs : qs[j].result = "ok" => parts[j].result = "ok"
        BY <2>2 DEF Same
      <3>2. \A t \in Actors : transfer'[t].part # 0 => transfer'[t] = transfer[t] /\ transfer[t].part \in DOMAIN parts
        BY <2>1, Busy
      <3> QED
        BY <1>1, <1>3, <1>7, <2>1, <2>2, <3>1, <3>2, GoesOn
    <2> QED
      BY <1>7, <2>1, <2>2, <2>3, <2>4, <2>5 DEF Inv
  <1>11. CASE ~parts[h].interrupt
    <2>1. PICK d : d = [transfer[w] EXCEPT !.part = h] /\ transfer' = [transfer EXCEPT ![w] = d] /\ parts' = parts
      BY <1>1, <1>11
    <2>2. transfer \in [Actors -> Work] /\ transfer[w] = Nothing
      <3>1. ~Open(call, parts, 0)
        BY Known DEF Open
      <3> QED
        BY <1>1, <1>5, <3>1 DEF Inv, Types
    <2>3. d = [part |-> h, written |-> 0] /\ h \in Nat /\ h # 0
      BY <1>3, <2>1, <2>2, Known DEF Nothing
    <2>4. d \in Work /\ d # Nothing
      BY <2>3 DEF Work, Nothing
    <2>5. transfer' \in [Actors -> Work] /\ transfer'[w] = d /\ \A t \in Actors : t # w => transfer'[t] = transfer[t]
      BY <1>8, <2>1, <2>2, <2>4
    <2>6. Types'
      BY <1>2, <1>7, <2>1, <2>5 DEF Inv, Types
    <2>7. Tasks'
      <3>1. ASSUME NEW v \in Workers
            PROVE  \/ transfer'[v] = Nothing
                   \/ /\ Open(call, parts, transfer'[v].part)
                      /\ \A i \in DOMAIN queue' : queue'[i] # transfer'[v].part
                      /\ \A u \in Workers : u # v => transfer'[u].part # transfer'[v].part
        <4>1. CASE v = w
          <5>1. transfer'[v].part = h
            BY <2>3, <2>5, <4>1
          <5>2. \A u \in Workers : u # v => transfer'[u].part # h
            BY <1>5, <1>8, <2>3, <2>5, <4>1
          <5> QED
            BY <1>3, <1>4, <5>1, <5>2
        <4>2. CASE v # w
          <5>1. transfer'[v] = transfer[v] /\ transfer'[w].part = h
            BY <1>8, <2>3, <2>5, <4>2
          <5>2. transfer[v] # Nothing => \A u \in Workers : u # v => transfer'[u].part # transfer[v].part
            BY <1>5, <1>6, <1>8, <2>5, <5>1
          <5> QED
            BY <1>5, <1>6, <5>1, <5>2
        <4> QED
          BY <4>1, <4>2
      <3>2. transfer'[Caller] = Nothing
        BY <1>8, <2>5
      <3> QED
        BY <1>3, <1>4, <1>7, <2>1, <3>1, <3>2 DEF Tasks
    <2>8. Files' /\ Request' /\ Downloads'
      <3>1. \A t \in Actors : transfer'[t].part # 0 =>
              \/ transfer'[t] = transfer[t] /\ transfer[t].part \in DOMAIN parts
              \/ transfer'[t].part \in DOMAIN parts /\ transfer'[t].written = 0
        BY <1>3, <2>3, <2>5, Busy
      <3> QED
        BY <1>1, <1>3, <1>7, <1>9, <2>1, <3>1, GoesOn
    <2> QED
      BY <1>7, <2>1, <2>6, <2>7, <2>8 DEF Inv
  <1> QED
    BY <1>10, <1>11
(* A thread that downloads: its part, and where the callback is.            *)
LEMMA AtWork ==
  ASSUME Inv, NEW t \in Actors, transfer[t].part # 0
  PROVE  /\ call.at \in Downloading /\ (t = Caller <=> call.at = "alone")
         /\ transfer[t].part \in DOMAIN parts /\ parts[transfer[t].part].offset \in Nat /\ parts[transfer[t].part].length \in Nat
         /\ transfer[t].written \in Nat /\ transfer[t].written <= parts[transfer[t].part].length
         /\ Filled(local, parts[transfer[t].part].offset, transfer[t].written)
         /\ parts[1].offset \in Nat /\ parts[1].offset <= parts[transfer[t].part].offset
         /\ parts[transfer[t].part].offset + parts[transfer[t].part].length <= End(parts) /\ End(parts) \in Nat
  <1>1. transfer[t].part \in DOMAIN parts /\ transfer[t] \in Work /\ (t # Caller => Open(call, parts, transfer[t].part))
    BY Busy
  <1>2. transfer[t] # Nothing
    BY DEF Nothing
  <1>3. call.at \in Downloading /\ (t = Caller <=> call.at = "alone")
    <2>1. CASE t = Caller
      BY <1>2, <2>1 DEF Inv, Tasks, Downloading
    <2>2. CASE t # Caller
      BY <1>1, <2>2 DEF Open, Downloading, Awaited
    <2> QED
      BY <2>1, <2>2
  <1>4. parts \in Seq(Part) /\ Len(parts) \in Nat /\ DOMAIN parts = 1 .. Len(parts)
    BY Known
  <1>5. 1 \in DOMAIN parts /\ Len(parts) \in DOMAIN parts
    BY <1>1, <1>4
  <1>6. \A i \in DOMAIN parts : parts[i].offset \in Nat /\ parts[i].length \in Nat
    BY <1>4, PartsAre
  <1>7. End(parts) \in Nat
    BY <1>5, <1>6 DEF End
  <1>8. transfer[t].written \in Nat
    BY <1>1 DEF Work
  <1> QED
    BY <1>1, <1>3, <1>5, <1>6, <1>7, <1>8 DEF Inv, Downloads, Laid

(* What a store does to the file: one unit of the object beyond what was    *)
(* there when the callback began.                                           *)
LEMMA Stored ==
  ASSUME Inv, NEW t \in Actors, Store(t)
  PROVE  \E o \in Nat : /\ o = parts[transfer[t].part].offset + transfer[t].written /\ transfer[t].part # 0
                        /\ transfer[t].written < parts[transfer[t].part].length
                        /\ parts[1].offset <= o /\ o < End(parts)
                        /\ LiesOver(local, o, 1, "object", local')
                        /\ transfer' = [transfer EXCEPT ![t].written = @ + 1]
                        /\ UNCHANGED <<fileSize, truth, call, parts, queue, torn>>
  <1>1. PICK o : /\ o = parts[transfer[t].part].offset + transfer[t].written /\ transfer[t].part # 0
                 /\ transfer[t].written < parts[transfer[t].part].length
                 /\ local' = Overlaid(local, o, 1, "object")
                 /\ transfer' = [transfer EXCEPT ![t].written = @ + 1]
                 /\ UNCHANGED <<fileSize, truth, call, parts, queue, torn>>
    BY DEF Store
  <1>2. /\ parts[transfer[t].part].offset \in Nat /\ parts[transfer[t].part].length \in Nat /\ transfer[t].written \in Nat
        /\ parts[1].offset \in Nat /\ parts[1].offset <= parts[transfer[t].part].offset
        /\ parts[transfer[t].part].offset + parts[transfer[t].part].length <= End(parts) /\ End(parts) \in Nat
    BY <1>1, AtWork
  <1>3. o \in Nat /\ parts[1].offset <= o /\ o < End(parts)
    BY <1>1, <1>2
  <1>4. LiesOver(local, o, 1, "object", local')
    <2>1. PICK d \in Data : d = "object" /\ local' = Overlaid(local, o, 1, d)
      BY <1>1 DEF Data
    <2>2. local \in Seq(Data)
      BY DEF Inv, Types
    <2> QED
      BY <1>3, <2>1, <2>2, OverlaidIs
  <1> QED
    BY <1>1, <1>3, <1>4

LEMMA StoreStep ==
  ASSUME Inv, NEW t \in Actors, Store(t)
  PROVE  Inv'
  <1>1. PICK o \in Nat : /\ o = parts[transfer[t].part].offset + transfer[t].written /\ transfer[t].part # 0
                         /\ transfer[t].written < parts[transfer[t].part].length
                         /\ parts[1].offset <= o /\ o < End(parts)
                         /\ LiesOver(local, o, 1, "object", local')
                         /\ transfer' = [transfer EXCEPT ![t].written = @ + 1]
                         /\ UNCHANGED <<fileSize, truth, call, parts, queue, torn>>
    BY Stored
  <1>2. PICK i, n, b, e : i = transfer[t].part /\ n = transfer[t].written /\ b = parts[1].offset /\ e = End(parts)
    OBVIOUS
  <1>3. /\ call.at \in Downloading /\ (t = Caller <=> call.at = "alone") /\ call.at # "ready" /\ call.at # "idle"
        /\ i \in DOMAIN parts /\ n \in Nat /\ b \in Nat /\ e \in Nat
        /\ parts[i].offset \in Nat /\ parts[i].length \in Nat /\ Filled(local, parts[i].offset, n)
    BY <1>1, <1>2, AtWork DEF Downloading, Awaited
  <1>4. o = parts[i].offset + n /\ n < parts[i].length /\ b <= o /\ o < e
    BY <1>1, <1>2
  <1>5. Len(local) \in Nat /\ fileSize \in Nat /\ Len(local) <= e /\ e <= fileSize /\ b <= Len(local)
    BY <1>2, <1>3, Known DEF Inv, Downloads, Files, BaseOf
  <1>6. /\ local' \in Seq(Data) /\ Len(local') \in Nat /\ Len(local') = (IF Len(local) > o + 1 THEN Len(local) ELSE o + 1)
        /\ Len(local) <= Len(local') /\ Len(local') <= e
        /\ local'[o + 1] = "object" /\ \A u \in 1 .. Len(local') : u # o + 1 => local'[u] = IF u <= Len(local) THEN local[u] ELSE "zero"
    <2>1. /\ local' \in Seq(Data) /\ Len(local') \in Nat
          /\ Len(local') = (IF Len(local) > o + 1 THEN Len(local) ELSE o + 1)
          /\ \A u \in 1 .. Len(local') : local'[u] = IF u \in o + 1 .. o + 1 THEN "object" ELSE IF u <= Len(local) THEN local[u] ELSE "zero"
      BY <1>1 DEF LiesOver
    <2>2. o + 1 \in 1 .. Len(local') /\ Len(local) <= Len(local') /\ Len(local') <= e
      BY <1>3, <1>4, <1>5, <2>1
    <2> QED
      BY <2>1, <2>2
  <1>7. ASSUME NEW p \in Nat, NEW l \in Nat, Filled(local, p, l)
        PROVE  Filled(local', p, l)
    <2> SUFFICES ASSUME NEW u \in p + 1 .. p + l PROVE u <= Len(local') /\ local'[u] = "object"
      BY DEF Filled
    <2>1. u <= Len(local) /\ local[u] = "object"
      BY <1>7 DEF Filled
    <2>2. u \in 1 .. Len(local')
      BY <1>5, <1>6, <2>1
    <2> QED
      BY <1>6, <2>1, <2>2
  <1>8. Filled(local', parts[i].offset, n + 1)
    <2>1. Filled(local', parts[i].offset, n)
      BY <1>3, <1>7
    <2> SUFFICES ASSUME NEW u \in parts[i].offset + 1 .. parts[i].offset + (n + 1) PROVE u <= Len(local') /\ local'[u] = "object"
      BY DEF Filled
    <2>2. CASE u = o + 1
      BY <1>3, <1>5, <1>6, <2>2
    <2>3. CASE u # o + 1
      <3>1. u \in parts[i].offset + 1 .. parts[i].offset + n
        BY <1>3, <1>4, <2>3
      <3> QED
        BY <2>1, <3>1 DEF Filled
    <2> QED
      BY <2>2, <2>3
  <1>9. PICK d : d = [transfer[t] EXCEPT !.written = n + 1] /\ transfer' = [transfer EXCEPT ![t] = d]
    BY <1>1, <1>2
  <1>10. d = [part |-> i, written |-> n + 1] /\ d \in Work /\ d.part = i /\ i # 0
    <2>1. transfer \in [Actors -> Work] /\ transfer[t] \in Work
      BY DEF Inv, Types
    <2>2. d = [part |-> i, written |-> n + 1]
      BY <1>2, <1>9, <2>1 DEF Work
    <2> QED
      BY <1>1, <1>2, <1>3, <2>1, <2>2 DEF Work
  <1>11. /\ transfer' \in [Actors -> Work] /\ transfer'[t] = d /\ d # Nothing /\ transfer[t] # Nothing
         /\ \A s \in Actors : s # t => transfer'[s] = transfer[s]
         /\ \A s \in Actors : transfer'[s].part = transfer[s].part
    <2>1. transfer \in [Actors -> Work]
      BY DEF Inv, Types
    <2>2. transfer' \in [Actors -> Work] /\ transfer'[t] = d /\ \A s \in Actors : s # t => transfer'[s] = transfer[s]
      BY <1>9, <1>10, <2>1
    <2>3. d # Nothing /\ transfer[t] # Nothing
      BY <1>1, <1>10 DEF Nothing
    <2> QED
      BY <1>2, <1>10, <2>2, <2>3
  <1>12. Types'
    BY <1>1, <1>6, <1>11 DEF Inv, Types
  <1>13. Tasks'
    <2>1. \A s \in Workers : (transfer'[s] = Nothing <=> transfer[s] = Nothing) /\ transfer'[s].part = transfer[s].part
      BY <1>11 DEF Actors
    <2>2. Caller \in Actors
      BY DEF Actors
    <2>3. IF call.at = "alone" THEN transfer'[Caller].part = 1 /\ Len(parts) = 1 ELSE transfer'[Caller] = Nothing
      BY <1>3, <1>11, <2>2 DEF Inv, Tasks
    <2>4. \A w \in Workers :
             \/ transfer'[w] = Nothing
             \/ /\ Open(call, parts, transfer'[w].part)
                /\ \A j \in DOMAIN queue : queue[j] # transfer'[w].part
                /\ \A v \in Workers : v # w => transfer'[v].part # transfer'[w].part
      BY <2>1 DEF Inv, Tasks
    <2> QED
      BY <1>1, <2>3, <2>4 DEF Inv, Tasks
  <1>14. Files'
    <2>1. BaseOf(call, local, parts) = b /\ BaseOf(call, local', parts) = b
      BY <1>2, <1>3 DEF BaseOf
    <2>2. Len(local') <= fileSize /\ b <= Len(local')
      BY <1>3, <1>5, <1>6
    <2>3. \A u \in b + 1 .. Len(local') : local'[u] # "written"
      <3> SUFFICES ASSUME NEW u \in b + 1 .. Len(local') PROVE local'[u] # "written"
        OBVIOUS
      <3>1. CASE u = o + 1
        BY <1>6, <3>1
      <3>2. CASE u # o + 1 /\ u <= Len(local)
        <4>1. u \in b + 1 .. Len(local) /\ u \in 1 .. Len(local')
          BY <1>3, <1>5, <3>2
        <4> QED
          BY <1>6, <2>1, <3>2, <4>1 DEF Inv, Files
      <3>3. CASE u # o + 1 /\ ~(u <= Len(local))
        <4>1. u \in 1 .. Len(local')
          BY <1>3
        <4> QED
          BY <1>6, <3>3, <4>1
      <3> QED
        BY <3>1, <3>2, <3>3
    <2>4. Prefix(b, local, fileSize, truth) => Prefix(b, local', fileSize, truth)
      <3>1. ASSUME NEW u \in 1 .. b PROVE local'[u] = local[u]
        <4>1. u # o + 1 /\ u <= Len(local) /\ u \in 1 .. Len(local')
          BY <1>3, <1>4, <1>5, <1>6
        <4> QED
          BY <1>6, <4>1
      <3> QED
        BY <3>1 DEF Prefix
    <2>5. torn \/ Prefix(b, local', fileSize, truth)
      BY <2>1, <2>4 DEF Inv, Files
    <2> QED
      BY <1>1, <2>1, <2>2, <2>3, <2>5 DEF Inv, Files
  <1>15. Request'
    BY <1>1, <1>3 DEF Inv, Request
  <1>16. Downloads'
    <2>1. \A s \in Actors : transfer'[s].part # 0 =>
             /\ transfer'[s].written <= parts[transfer'[s].part].length
             /\ Filled(local', parts[transfer'[s].part].offset, transfer'[s].written)
      <3> SUFFICES ASSUME NEW s \in Actors, transfer'[s].part # 0
                   PROVE  /\ transfer'[s].written <= parts[transfer'[s].part].length
                          /\ Filled(local', parts[transfer'[s].part].offset, transfer'[s].written)
        OBVIOUS
      <3>1. CASE s = t
        <4>1. n + 1 <= parts[i].length
          BY <1>3, <1>4
        <4> QED
          BY <1>8, <1>10, <1>11, <3>1, <4>1
      <3>2. CASE s # t
        <4>1. transfer'[s] = transfer[s] /\ transfer[s].part # 0
          BY <1>11, <3>2
        <4>2. /\ transfer[s].written \in Nat /\ parts[transfer[s].part].offset \in Nat
              /\ transfer[s].written <= parts[transfer[s].part].length
              /\ Filled(local, parts[transfer[s].part].offset, transfer[s].written)
          BY <4>1, AtWork
        <4> QED
          BY <1>7, <4>1, <4>2
      <3> QED
        BY <3>1, <3>2
    <2>2. \A j \in DOMAIN parts : parts[j].result = "ok" => Filled(local', parts[j].offset, parts[j].length)
      <3>1. \A j \in DOMAIN parts : parts[j].offset \in Nat /\ parts[j].length \in Nat
        BY Known, PartsAre
      <3> QED
        BY <1>3, <1>7, <3>1 DEF Inv, Downloads
    <2>3. call.at = "alone" => Len(local') = parts[1].offset + transfer'[Caller].written
      <3> SUFFICES ASSUME call.at = "alone" PROVE Len(local') = parts[1].offset + transfer'[Caller].written
        OBVIOUS
      <3>1. t = Caller /\ i = 1
        BY <1>2, <1>3 DEF Inv, Tasks
      <3>2. Len(local) = b + n
        BY <1>2, <1>3, <3>1 DEF Inv, Downloads
      <3>3. o = b + n
        BY <1>2, <1>4, <3>1
      <3>4. Len(local') = b + (n + 1)
        BY <1>3, <1>6, <3>2, <3>3
      <3>5. transfer'[Caller].written = n + 1
        BY <1>10, <1>11, <3>1
      <3> QED
        BY <1>2, <3>4, <3>5
    <2>4. /\ Laid(parts, parts[1].offset, End(parts)) /\ End(parts) <= fileSize /\ Enough(call, End(parts), fileSize)
      BY <1>3 DEF Inv, Downloads
    <2>5. Len(local') <= End(parts)
      BY <1>2, <1>6
    <2> QED
      BY <1>1, <2>1, <2>2, <2>3, <2>4, <2>5 DEF Downloads
  <1> QED
    BY <1>1, <1>12, <1>13, <1>14, <1>15, <1>16 DEF Inv
LEMMA EndTransferStep ==
  ASSUME Inv, NEW t \in Actors, EndTransfer(t)
  PROVE  Inv'
  <1>1. PICK i, n, good : /\ i = transfer[t].part /\ n = transfer[t].written /\ i # 0
                          /\ good \in BOOLEAN /\ (good <=> n = parts[i].length)
                          /\ transfer' = [transfer EXCEPT ![t] = Nothing]
                          /\ IF t = Caller
                             THEN /\ call' = IF good THEN [call EXCEPT !.at = "ready"]
                                             ELSE [call EXCEPT !.at = "idle", !.answer = "error"]
                                  /\ UNCHANGED parts
                             ELSE /\ parts' = [parts EXCEPT ![i].result = IF good THEN "ok" ELSE "bad"]
                                  /\ UNCHANGED call
                          /\ UNCHANGED <<cached, queue, torn>>
    BY DEF EndTransfer
  <1>2. /\ call.at \in Downloading /\ (t = Caller <=> call.at = "alone")
        /\ i \in DOMAIN parts /\ parts[i].offset \in Nat /\ parts[i].length \in Nat /\ n \in Nat
        /\ Filled(local, parts[i].offset, n)
    BY <1>1, AtWork
  <1>3. Nothing \in Work /\ Nothing.part = 0
    BY DEF Nothing, Work
  <1>4. /\ transfer' \in [Actors -> Work] /\ transfer'[t] = Nothing
        /\ \A s \in Actors : s # t => transfer'[s] = transfer[s]
    <2>1. transfer \in [Actors -> Work]
      BY DEF Inv, Types
    <2> QED
      BY <1>1, <1>3, <2>1
  <1>5. local' = local /\ fileSize' = fileSize /\ truth' = truth /\ torn' = torn /\ queue' = queue
    BY <1>1 DEF cached
  <1>6. Workers \subseteq Actors /\ Caller \in Actors /\ Caller \notin Workers
    BY Threads DEF Actors
  <1>7. CASE t = Caller
    <2>1. call.at = "alone" /\ call.at \notin Awaited /\ call \in Calls
      BY <1>2, <1>7, Known DEF Awaited
    <2>2. i = 1 /\ Len(parts) = 1 /\ call.part = 1 /\ Len(local) = parts[1].offset + n
      BY <1>1, <1>2, <1>7, <2>1 DEF Inv, Tasks, Progress, Downloads
    <2>3. PICK m : /\ call' = m /\ m \in Calls /\ m.op = call.op /\ m.offset = call.offset /\ m.length = call.length /\ m.part = 1
                   /\ (good /\ m.at = "ready") \/ (m.at = "idle" /\ m.answer = "error")
      <3>1. CASE good
        <4>1. PICK m : m = [call EXCEPT !.at = "ready"] /\ call' = m
          BY <1>1, <1>7, <3>1
        <4>2. m = [op |-> call.op, offset |-> call.offset, length |-> call.length, at |-> "ready", part |-> call.part,
                   answer |-> call.answer]
          BY <2>1, <4>1 DEF Calls
        <4>3. m \in Calls /\ m.op = call.op /\ m.offset = call.offset /\ m.length = call.length /\ m.part = 1 /\ m.at = "ready"
          BY <2>1, <2>2, <4>2 DEF Calls, Places
        <4> QED
          BY <3>1, <4>1, <4>3
      <3>2. CASE ~good
        <4>1. PICK m : m = [call EXCEPT !.at = "idle", !.answer = "error"] /\ call' = m
          BY <1>1, <1>7, <3>2
        <4>2. m = [op |-> call.op, offset |-> call.offset, length |-> call.length, at |-> "idle", part |-> call.part,
                   answer |-> "error"]
          BY <2>1, <4>1 DEF Calls
        <4>3. /\ m \in Calls /\ m.op = call.op /\ m.offset = call.offset /\ m.length = call.length /\ m.part = 1
              /\ m.at = "idle" /\ m.answer = "error"
          BY <2>1, <2>2, <4>2 DEF Calls, Places
        <4> QED
          BY <4>1, <4>3
      <3> QED
        BY <1>1, <3>1, <3>2
    <2>4. m.at \notin Awaited /\ m.at # "alone" /\ parts' = parts
      BY <1>1, <1>7, <2>3 DEF Awaited
    <2>5. Types'
      BY <1>4, <1>5, <2>3, <2>4 DEF Inv, Types
    <2>6. Tasks'
      <3>1. queue = <<>> /\ DOMAIN queue = {} /\ \A w \in Workers : transfer[w] = Nothing
        BY <2>1, Quiet
      <3>2. \A w \in Workers : transfer'[w] = Nothing
        BY <1>4, <1>6, <1>7, <3>1
      <3> QED
        BY <1>4, <1>5, <1>7, <2>3, <2>4, <3>1, <3>2 DEF Tasks
    <2>7. Progress(m, parts)
      <3>1. m.at = "ready" \/ m.at = "idle"
        BY <2>3
      <3> QED
        BY <2>3, <2>4, <3>1 DEF Progress
    <2>8. Files' /\ Request' /\ Downloads'
      <3>1. \A u \in parts[1].offset + 1 .. Len(local) : local[u] = "object"
        BY <1>2, <2>2 DEF Filled
      <3>2. good => Len(local) = End(parts)
        BY <1>1, <2>2 DEF End
      <3>3. UNCHANGED <<cached, torn>>
        BY <1>1
      <3>4. (m.at = "ready" /\ Len(local) = End(parts)) \/ (m.at = "idle" /\ m.answer = "error")
        BY <2>3, <3>2
      <3> QED
        BY <1>2, <2>3, <3>1, <3>3, <3>4, Left
    <2> QED
      BY <2>3, <2>4, <2>5, <2>6, <2>7, <2>8 DEF Inv
  <1>8. CASE t # Caller
    <2>1. /\ t \in Workers /\ call.at # "alone" /\ call.at \in Awaited /\ call' = call
          /\ transfer[t] # Nothing /\ Open(call, parts, i)
      BY <1>1, <1>2, <1>3, <1>8, Busy DEF Actors, Downloading
    <2>2. PICK r \in {"ok", "bad"} : (r = "ok" <=> good) /\ parts' = [parts EXCEPT ![i].result = r]
      BY <1>1, <1>8
    <2>3. PICK qs : qs = [parts EXCEPT ![i].result = r] /\ parts' = qs
      BY <2>2
    <2>4. /\ qs \in Seq(Part) /\ Same(parts, qs) /\ qs[i].result = r /\ \A j \in DOMAIN parts : j # i => qs[j] = parts[j]
          /\ Progress(call, qs) /\ \A j : j # i /\ Open(call, parts, j) => Open(call, qs, j)
          /\ Len(qs) <= MaxSize /\ \A j \in DOMAIN qs : qs[j].offset + qs[j].length <= MaxSize
      BY <2>1, <2>3, OneEnds, Zenon
    <2>5. Types'
      BY <1>4, <1>5, <2>1, <2>3, <2>4 DEF Inv, Types
    <2>6. Tasks'
      <3>1. \A j \in DOMAIN queue : queue[j] # i /\ Open(call, qs, queue[j])
        BY <1>1, <2>1, <2>4 DEF Inv, Tasks
      <3>2. ASSUME NEW w \in Workers, transfer'[w] # Nothing
            PROVE  /\ Open(call, qs, transfer'[w].part)
                   /\ \A j \in DOMAIN queue : queue[j] # transfer'[w].part
                   /\ \A v \in Workers : v # w => transfer'[v].part # transfer'[w].part
        <4>1. w # t /\ transfer'[w] = transfer[w] /\ transfer[w] # Nothing
          BY <1>4, <1>6, <3>2
        <4>2. /\ Open(call, parts, transfer[w].part) /\ \A j \in DOMAIN queue : queue[j] # transfer[w].part
              /\ \A v \in Workers : v # w => transfer[v].part # transfer[w].part
          BY <4>1 DEF Inv, Tasks
        <4>3. transfer[w].part # i /\ transfer[w].part # 0
          BY <1>1, <2>1, <4>1, <4>2, Known DEF Open
        <4>4. Open(call, qs, transfer[w].part)
          BY <2>4, <4>2, <4>3
        <4>5. \A v \in Workers : transfer'[v].part = IF v = t THEN 0 ELSE transfer[v].part
          BY <1>3, <1>4, <1>6
        <4> QED
          BY <4>1, <4>2, <4>3, <4>4, <4>5
      <3>3. transfer'[Caller] = Nothing
        BY <1>4, <1>6, <1>8, <2>1 DEF Inv, Tasks
      <3> QED
        BY <1>5, <2>1, <2>3, <3>1, <3>2, <3>3 DEF Inv, Tasks
    <2>7. Files' /\ Request' /\ Downloads'
      <3>1. \A j \in DOMAIN qs : qs[j].result = "ok" => parts[j].result = "ok" \/ Filled(local, parts[j].offset, parts[j].length)
        <4>1. DOMAIN qs = DOMAIN parts
          BY <2>4 DEF Same
        <4>2. r = "ok" => Filled(local, parts[i].offset, parts[i].length)
          BY <1>1, <1>2, <2>2
        <4> QED
          BY <2>4, <4>1, <4>2
      <3>2. \A s \in Actors : transfer'[s].part # 0 => transfer'[s] = transfer[s] /\ transfer[s].part \in DOMAIN parts
        BY <1>3, <1>4, Busy
      <3>3. UNCHANGED <<cached, torn>>
        BY <1>1
      <3> QED
        BY <2>1, <2>3, <2>4, <3>1, <3>2, <3>3, GoesOn
    <2> QED
      BY <2>1, <2>3, <2>4, <2>5, <2>6, <2>7 DEF Inv
  <1> QED
    BY <1>7, <1>8

LEMMA NextInv == Inv /\ [Next]_vars => Inv'
  <1> SUFFICES ASSUME Inv, [Next]_vars PROVE Inv'
    OBVIOUS
  <1>1. CASE \E r \in Requests : Begin(r)
    BY <1>1, BeginStep
  <1>2. CASE Proceed
    BY <1>2, AddTaskStep, CollectStep, InterruptStep, DrainStep, CompleteStep DEF Proceed
  <1>3. CASE \E w \in Workers : Take(w)
    BY <1>3, TakeStep
  <1>4. CASE Download
    BY <1>4, StoreStep, EndTransferStep DEF Download
  <1>5. CASE UNCHANGED vars
    BY <1>5 DEF vars, Inv, Types, Tasks, Open, Progress, Files, Prefix, BaseOf, Request, Enough, Downloads, Laid, End, Filled
  <1> QED
    BY <1>1, <1>2, <1>3, <1>4, <1>5 DEF Next

------------------------------------------------------------------------------
(* The theorems                                                             *)

(* What holds throughout: the file is filled from its beginning to where    *)
(* the download under way began, every task is in one place, and the parts  *)
(* cover what the request lacks.                                            *)
THEOREM SyncInvariance == Spec => []Inv
  BY InitInv, NextInv, PTL DEF Spec

LEMMA InvTypes == Inv => TypeOK
  <1> SUFFICES ASSUME Inv PROVE TypeOK
    OBVIOUS
  <1>1. /\ call \in Calls /\ parts \in Seq(Part) /\ Len(parts) \in Nat /\ DOMAIN parts = 1 .. Len(parts)
        /\ Len(local) \in Nat /\ fileSize \in Nat /\ Len(truth) \in Nat /\ MaxSize \in Nat
        /\ Len(parts) <= MaxSize /\ local \in Seq(Data) /\ truth \in Seq(Data) /\ torn \in BOOLEAN
    BY Known DEF Inv, Types
  <1>2. Len(local) <= MaxSize /\ fileSize \in 0 .. MaxSize /\ Len(truth) <= MaxSize
    BY <1>1 DEF Inv, Files
  <1>3. call \in [op : {"read", "write", "append", "resize"},
                  offset : -1 .. MaxSize, length : 0 .. MaxSize,
                  at : {"idle", "alone", "add", "collect", "interrupt", "drain", "ready"},
                  part : 1 .. MaxSize + 1, answer : {"none", "ok", "error"}]
    <2>1. call.part \in Nat \ {0}
      BY <1>1 DEF Calls
    <2>2. call.part <= Len(parts) \/ call.part = 1
      BY DEF Inv, Progress
    <2>3. call.part \in 1 .. MaxSize + 1
      BY <1>1, <2>1, <2>2
    <2> QED
      BY <1>1, <2>3 DEF Calls, Places
  <1>4. \A i \in DOMAIN parts : parts[i] \in [offset : 0 .. MaxSize, length : 1 .. MaxSize,
                                              result : {"none", "ok", "bad"}, interrupt : BOOLEAN]
    <2> SUFFICES ASSUME NEW i \in DOMAIN parts
                 PROVE  parts[i] \in [offset : 0 .. MaxSize, length : 1 .. MaxSize,
                                      result : {"none", "ok", "bad"}, interrupt : BOOLEAN]
      OBVIOUS
    <2>1. parts[i] \in Part /\ parts[i].offset \in Nat /\ parts[i].length \in Nat \ {0}
      BY <1>1, PartsAre
    <2>2. parts[i].offset + parts[i].length <= MaxSize
      BY DEF Inv, Types
    <2>3. parts[i].offset \in 0 .. MaxSize /\ parts[i].length \in 1 .. MaxSize
      BY <1>1, <2>1, <2>2
    <2> QED
      BY <2>1, <2>3 DEF Part
  <1>5. queue \in Seq(DOMAIN parts)
    <2>1. queue \in Seq(Nat) /\ \A i \in DOMAIN queue : queue[i] \in DOMAIN parts
      BY DEF Inv, Types, Tasks, Open
    <2>2. Len(queue) \in Nat /\ DOMAIN queue = 1 .. Len(queue) /\ queue \in [1 .. Len(queue) -> Nat]
      BY <2>1, LenProperties
    <2>3. queue \in [1 .. Len(queue) -> DOMAIN parts]
      BY <2>1, <2>2
    <2> QED
      BY <2>2, <2>3, SeqDef
  <1>6. transfer \in [Actors -> [part : 0 .. Len(parts), written : 0 .. MaxSize]]
    <2>1. transfer \in [Actors -> Work]
      BY DEF Inv, Types
    <2>2. ASSUME NEW t \in Actors PROVE transfer[t] \in [part : 0 .. Len(parts), written : 0 .. MaxSize]
      <3>1. transfer[t] \in Work
        BY <2>1
      <3>2. transfer[t].part \in 0 .. Len(parts)
        <4>1. transfer[t].part \in Nat
          BY <3>1 DEF Work
        <4> QED
          BY <1>1, <4>1, Busy
      <3>3. transfer[t].written \in 0 .. MaxSize
        <4>1. CASE transfer[t].part # 0
          <5>1. /\ transfer[t].written \in Nat /\ transfer[t].written <= parts[transfer[t].part].length
                /\ transfer[t].part \in DOMAIN parts
            BY <4>1, AtWork
          <5>2. parts[transfer[t].part].length \in 1 .. MaxSize
            BY <1>4, <5>1
          <5> QED
            BY <1>1, <5>1, <5>2
        <4>2. CASE transfer[t].part = 0
          <5>1. transfer[t] = Nothing
            BY <1>1, <4>2 DEF Inv, Tasks, Actors, Open
          <5> QED
            BY <1>1, <5>1 DEF Nothing
        <4> QED
          BY <4>1, <4>2
      <3> QED
        BY <3>1, <3>2, <3>3 DEF Work
    <2> QED
      BY <2>1, <2>2
  <1> QED
    BY <1>1, <1>2, <1>3, <1>4, <1>5, <1>6 DEF TypeOK

(* The state of the cache file, of a callback and of its tasks keeps its    *)
(* shape, whatever the object, the part sizes and the threads.              *)
THEOREM SyncTypeCorrect == Spec => []TypeOK
  BY SyncInvariance, InvTypes, PTL

(* What syncContent makes of a read: as long as no parallel download has    *)
(* failed and nothing was appended to an incomplete file, every unit of the *)
(* request that lies in the file is there, and is the one the program wrote *)
(* last, or the object's.                                                   *)
THEOREM ReadsTheObjectTheorem == Spec => []ReadsTheObjectUnlessTorn
  <1>1. Inv => ReadsTheObjectUnlessTorn
    <2> SUFFICES ASSUME Inv, ~torn, call.op = "read", call.at = "idle", call.answer = "ok", NEW i \in Asked
                 PROVE  i <= Len(local) /\ local[i] = truth[i]
      BY DEF ReadsTheObjectUnlessTorn, ReadsTheObject
    <2>1. /\ Len(local) \in Nat /\ fileSize \in Nat /\ call.offset \in Int /\ call.offset >= 0 /\ call.length \in Int
      BY Known DEF Calls, Inv, Request
    <2>2. Len(local) >= Min(call.offset + call.length, fileSize)
      BY DEF Inv, Request, Enough
    <2>3. i \in 1 .. Len(local)
      BY <2>1, <2>2 DEF Asked, Min
    <2>4. Prefix(Len(local), local, fileSize, truth)
      BY DEF Inv, Files, BaseOf, Downloading, Awaited
    <2> QED
      BY <2>1, <2>3, <2>4 DEF Prefix
  <1> QED
    BY <1>1, SyncInvariance, PTL

(* A callback that is not waiting for its parts has none under way: getResult *)
(* and the second wait after an interruption leave no thread at work on the *)
(* cache file and no task in the DelayedWorker's queue.                     *)
THEOREM QuietBetweenCallsTheorem == Spec => []QuietBetweenCalls
  <1>1. Inv => QuietBetweenCalls
    <2> SUFFICES ASSUME Inv, call.at \in {"idle", "ready"} PROVE queue = <<>> /\ \A t \in Actors : transfer[t] = Nothing
      BY DEF QuietBetweenCalls
    <2>1. call.at \notin Awaited /\ call.at # "alone"
      BY DEF Awaited
    <2>2. queue = <<>> /\ \A w \in Workers : transfer[w] = Nothing
      BY <2>1, Quiet
    <2>3. transfer[Caller] = Nothing
      BY <2>1 DEF Inv, Tasks
    <2> QED
      BY <2>2, <2>3 DEF Actors
  <1> QED
    BY <1>1, SyncInvariance, PTL

LEMMA StepKeepsWrites ==
  Inv /\ [Next]_vars =>
    [call.at # "ready" => \A i \in 1 .. Len(local) : local[i] = "written" => local'[i] = "written"]_vars
  <1> SUFFICES ASSUME Inv, [Next]_vars, call.at # "ready", NEW i \in 1 .. Len(local), local[i] = "written"
               PROVE  local'[i] = "written"
    OBVIOUS
  <1>1. CASE local' = local
    BY <1>1
  <1>2. ASSUME NEW t \in Actors, Store(t) PROVE local'[i] = "written"
    <2>1. PICK o \in Nat : /\ o = parts[transfer[t].part].offset + transfer[t].written /\ transfer[t].part # 0
                           /\ parts[1].offset <= o /\ LiesOver(local, o, 1, "object", local')
      BY <1>2, Stored
    <2>2. call.at \in Downloading /\ parts[1].offset \in Nat
      BY <2>1, AtWork
    <2>3. \A u \in parts[1].offset + 1 .. Len(local) : local[u] # "written"
      BY <2>2 DEF Inv, Files, BaseOf
    <2>4. Len(local) \in Nat
      BY Known
    <2>5. i \notin o + 1 .. o + 1
      BY <2>1, <2>2, <2>3, <2>4
    <2>6. Len(local') = (IF Len(local) > o + 1 THEN Len(local) ELSE o + 1)
      BY <2>1 DEF LiesOver
    <2>7. i \in 1 .. Len(local')
      BY <2>4, <2>6
    <2> QED
      BY <2>1, <2>4, <2>5, <2>7 DEF LiesOver
  <1>3. CASE UNCHANGED vars
    BY <1>1, <1>3 DEF vars
  <1>4. CASE \E r \in Requests : Begin(r)
    BY <1>1, <1>4 DEF Begin, cached
  <1>5. CASE Proceed
    BY <1>1, <1>5 DEF Proceed, AddTask, Collect, Interrupt, Drain, Complete, cached
  <1>6. CASE \E w \in Workers : Take(w)
    BY <1>1, <1>6 DEF Take, cached
  <1>7. CASE Download
    BY <1>1, <1>2, <1>7 DEF Download, EndTransfer, cached
  <1> QED
    BY <1>3, <1>4, <1>5, <1>6, <1>7 DEF Next

(* A download never overwrites what a program has written and not yet       *)
(* uploaded: writeFileFromStream writes only beyond what the file held when *)
(* syncContent cut the parts.                                               *)
THEOREM KeepsWritesTheorem == Spec => KeepsWrites
  BY SyncInvariance, StepKeepsWrites, PTL DEF Spec, KeepsWrites

=============================================================================
