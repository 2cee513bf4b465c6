--------------------------- MODULE InputEventsProofs ---------------------------
(***************************************************************************)
(* Proofs about InputEvents for every initial size of the queue, every     *)
(* bound on the pending words and every range of the signal count.         *)
(***************************************************************************)
EXTENDS InputEvents, SequenceTheorems, TLAPS

USE InputAssumption

-----------------------------------------------------------------------------
(* A function on 1 .. n is a sequence of length n.                         *)
LEMMA FunctionIsSeq ==
  ASSUME NEW n \in Nat, NEW f \in [1 .. n -> Word]
  PROVE  f \in Seq(Word) /\ Len(f) = n
<1>1. f \in Seq(Word)
  BY SeqDef
<1> QED
  BY <1>1, LenProperties

(* The queue.  First what the other lemmas need of its type.               *)
LEMMA RingType ==
  ASSUME NEW q, Ring(q)
  PROVE  /\ q.size \in Nat /\ q.size > 0
         /\ q.used \in Nat /\ q.used <= q.size
         /\ q.head \in Nat /\ q.head <= q.size
         /\ q.tail \in 0 .. q.size
         /\ q.slots \in [0 .. q.size -> Word]
         /\ DOMAIN q = {"slots", "size", "used", "tail", "head"}
  BY DEF Ring, Positions

LEMMA FromHeadInside ==
  ASSUME NEW q, Ring(q), NEW k \in 0 .. q.size
  PROVE  fromHead(q, k) \in 0 .. q.size
  BY RingType DEF fromHead

(* A step from k steps after head leads to k + 1 steps after head.         *)
LEMMA StepFromHead ==
  ASSUME NEW q, Ring(q), NEW k \in 0 .. q.size - 1
  PROVE  step(q, fromHead(q, k)) = fromHead(q, k + 1)
<1> DEFINE h == q.head
           n == q.size
<1>1. n \in Nat /\ h \in Nat /\ h <= n /\ k \in 0 .. n - 1
  BY RingType
<1>2. /\ fromHead(q, k) = IF h + k <= n THEN h + k ELSE h + k - n - 1
      /\ fromHead(q, k + 1) = IF h + (k + 1) <= n THEN h + (k + 1) ELSE h + (k + 1) - n - 1
      /\ \A v : step(q, v) = IF v < n THEN v + 1 ELSE 0
  BY DEF fromHead, step
<1> HIDE DEF h, n
<1>3. CASE h + k < n
  BY <1>1, <1>2, <1>3
<1>4. CASE h + k = n
  BY <1>1, <1>2, <1>4
<1>5. CASE h + k > n
  BY <1>1, <1>2, <1>5
<1> QED
  BY <1>1, <1>3, <1>4, <1>5

(* Counted from the next position, every position is one step nearer, and  *)
(* the one left behind is the last.                                        *)
LEMMA NextHead ==
  ASSUME NEW q, Ring(q), NEW d, d.size = q.size, d.head = step(q, q.head)
  PROVE  /\ \A k \in 0 .. q.size - 1 : fromHead(d, k) = fromHead(q, k + 1)
         /\ fromHead(d, q.size) = q.head
<1> DEFINE h == q.head
           n == q.size
           g == d.head
<1>1. n \in Nat /\ h \in Nat /\ h <= n
  BY RingType
<1>2. /\ \A k : fromHead(q, k) = IF h + k <= n THEN h + k ELSE h + k - n - 1
      /\ \A k : fromHead(d, k) = IF g + k <= n THEN g + k ELSE g + k - n - 1
      /\ g = IF h < n THEN h + 1 ELSE 0
  BY DEF fromHead, step
<1> HIDE DEF h, n, g
<1>3. ASSUME NEW k \in 0 .. n - 1
      PROVE  fromHead(d, k) = fromHead(q, k + 1)
  <2>1. /\ fromHead(d, k) = IF g + k <= n THEN g + k ELSE g + k - n - 1
        /\ fromHead(q, k + 1) = IF h + (k + 1) <= n THEN h + (k + 1) ELSE h + (k + 1) - n - 1
    BY <1>2
  <2>2. CASE h < n
    <3>1. g = h + 1
      BY <2>2, <1>2
    <3>2. CASE h + (k + 1) <= n
      BY <1>1, <2>1, <3>1, <3>2
    <3>3. CASE ~(h + (k + 1) <= n)
      BY <1>1, <2>1, <3>1, <3>3
    <3> QED
      BY <3>2, <3>3
  <2>3. CASE ~(h < n)
    <3>1. g = 0 /\ h = n
      BY <2>3, <1>1, <1>2
    <3>2. g + k <= n /\ g + k = k /\ ~(h + (k + 1) <= n) /\ h + (k + 1) - n - 1 = k
      BY <3>1, <1>1
    <3> QED
      BY <2>1, <3>2
  <2> QED
    BY <2>2, <2>3
<1>4. fromHead(d, n) = h
  <2>1. fromHead(d, n) = IF g + n <= n THEN g + n ELSE g + n - n - 1
    BY <1>2
  <2> QED
    BY <2>1, <1>1, <1>2
<1> QED
  BY <1>3, <1>4 DEF h, n

LEMMA ContentsType ==
  ASSUME NEW q, Ring(q)
  PROVE  /\ Contents(q) \in Seq(Word)
         /\ Len(Contents(q)) = q.used
         /\ \A i \in 1 .. q.used : Contents(q)[i] = q.slots[fromHead(q, i - 1)]
<1>1. ASSUME NEW i \in 1 .. q.used
      PROVE  q.slots[fromHead(q, i - 1)] \in Word
  <2>1. i - 1 \in 0 .. q.size
    BY RingType
  <2> QED
    BY <2>1, RingType, FromHeadInside
<1>2. q.used \in Nat
  BY RingType
<1>3. Contents(q) \in [1 .. q.used -> Word]
  BY <1>1 DEF Contents
<1> QED
  BY <1>2, <1>3, FunctionIsSeq DEF Contents

(* Different numbers of steps lead to different positions.                 *)
LEMMA FromHeadInjective ==
  ASSUME NEW q, Ring(q), NEW i \in 0 .. q.size, NEW j \in 0 .. q.size,
         fromHead(q, i) = fromHead(q, j)
  PROVE  i = j
  BY RingType DEF fromHead

LEMMA EmptyQueue == Ring(emptyQueue) /\ Contents(emptyQueue) = <<>>
<1>1. Ring(emptyQueue)
  BY DEF Ring, emptyQueue, Positions, fromHead, Word, Cleared
<1>2. Len(Contents(emptyQueue)) = 0
  BY <1>1, ContentsType DEF emptyQueue
<1> QED
  BY <1>1, <1>2, ContentsType

(* Putting a word into a queue that is not full adds it at the end.        *)
LEMMA PutAppends ==
  ASSUME NEW q, Ring(q), q.used < q.size, NEW w \in Word
  PROVE  /\ Ring(Put(q, w))
         /\ Contents(Put(q, w)) = Append(Contents(q), w)
         /\ Put(q, w).used = q.used + 1
<1> DEFINE p == Put(q, w)
<1>1. /\ p.size = q.size /\ p.head = q.head
      /\ p.used = q.used + 1
      /\ p.tail = step(q, q.tail)
      /\ p.slots = [q.slots EXCEPT ![q.tail] = w]
      /\ p \in [slots : {p.slots}, size : {p.size}, used : {p.used}, tail : {p.tail},
                head : {p.head}]
  BY DEF Put, Ring
<1>2. q.tail = fromHead(q, q.used)
  BY DEF Ring
<1>3. p.tail = fromHead(q, q.used + 1)
  <2>1. q.used \in 0 .. q.size - 1
    BY RingType
  <2> QED
    BY <1>1, <1>2, <2>1, StepFromHead
<1>4. \A k : fromHead(p, k) = fromHead(q, k)
  BY <1>1 DEF fromHead
<1>5. \A k \in 0 .. q.size : k # q.used => p.slots[fromHead(p, k)] = q.slots[fromHead(q, k)]
  BY <1>1, <1>2, <1>4, RingType, FromHeadInside, FromHeadInjective
<1>6. p.slots[fromHead(p, q.used)] = w
  BY <1>1, <1>2, <1>4, RingType
<1>7. Ring(p)
  <2>1. p.slots \in [0 .. q.size -> Word]
    BY <1>1, RingType
  <2>2. p.tail \in 0 .. q.size
    <3>1. q.used + 1 \in 0 .. q.size
      BY RingType
    <3> QED
      BY <1>3, <3>1, FromHeadInside
  <2>3. \A k \in p.used .. p.size : p.slots[fromHead(p, k)] = Cleared
    <3>1. \A k \in q.used .. q.size : q.slots[fromHead(q, k)] = Cleared
      BY DEF Ring
    <3>2. ASSUME NEW k \in q.used + 1 .. q.size
          PROVE  p.slots[fromHead(p, k)] = Cleared
      <4>1. k \in q.used .. q.size /\ k \in 0 .. q.size /\ k # q.used
        BY RingType
      <4> QED
        BY <4>1, <3>1, <1>5
    <3> QED
      BY <3>2, <1>1
  <2>4. p.tail = fromHead(p, p.used)
    BY <1>1, <1>3, <1>4
  <2>5. /\ p.slots \in [Positions(p) -> Word]
        /\ p.size \in Nat \ {0}
        /\ p.used \in 0 .. p.size
        /\ p.tail \in Positions(p)
        /\ p.head \in Positions(p)
    BY <1>1, <2>1, <2>2, RingType DEF Positions
  <2> QED
    BY <1>1, <2>3, <2>4, <2>5 DEF Ring
<1>8. Contents(p) = Append(Contents(q), w)
  <2> DEFINE b == Contents(q)
             c == Contents(p)
  <2>1. /\ b \in Seq(Word)
        /\ Len(b) = q.used
        /\ \A i \in 1 .. q.used : b[i] = q.slots[fromHead(q, i - 1)]
    BY ContentsType
  <2>2. /\ c \in Seq(Word)
        /\ Len(c) = p.used
        /\ \A i \in 1 .. p.used : c[i] = p.slots[fromHead(p, i - 1)]
    BY <1>7, ContentsType
  <2>3. /\ Append(b, w) \in Seq(Word)
        /\ Len(Append(b, w)) = q.used + 1
        /\ \A i \in 1 .. q.used : Append(b, w)[i] = b[i]
        /\ Append(b, w)[q.used + 1] = w
    BY <2>1, AppendProperties
  <2>4. ASSUME NEW i \in 1 .. q.used
        PROVE  c[i] = b[i]
    <3>1. /\ i - 1 \in 0 .. q.size
          /\ i - 1 # q.used
          /\ i \in 1 .. p.used
      BY <1>1, RingType
    <3>2. p.slots[fromHead(p, i - 1)] = q.slots[fromHead(q, i - 1)]
      BY <3>1, <1>5
    <3> QED
      BY <3>1, <3>2, <2>1, <2>2
  <2>5. c[q.used + 1] = w
    <3>1. /\ q.used + 1 \in 1 .. p.used
          /\ (q.used + 1) - 1 = q.used
      BY <1>1, RingType
    <3> QED
      BY <3>1, <1>6, <2>2
  <2>6. \A i \in 1 .. q.used + 1 : c[i] = Append(b, w)[i]
    BY <2>3, <2>4, <2>5, RingType
  <2>7. Len(c) = q.used + 1
    BY <1>1, <2>2
  <2> HIDE DEF b, c
  <2>8. c = Append(b, w)
    BY <2>2, <2>3, <2>6, <2>7, SeqEqual
  <2> QED
    BY <2>8 DEF b, c
<1> QED
  BY <1>1, <1>7, <1>8

(* A sequence without its k-th element.                                    *)
LEMMA WithoutProperties ==
  ASSUME NEW s \in Seq(Word), NEW k \in 1 .. Len(s)
  PROVE  /\ Buffer!Without(s, k) \in Seq(Word)
         /\ Len(Buffer!Without(s, k)) = Len(s) - 1
         /\ \A i \in 1 .. Len(s) - 1 :
              Buffer!Without(s, k)[i] = IF i < k THEN s[i] ELSE s[i + 1]
<1> DEFINE before == SubSeq(s, 1, k - 1)
           after == SubSeq(s, k + 1, Len(s))
<1>1. /\ before \in Seq(Word)
      /\ Len(before) = k - 1
      /\ \A i \in 1 .. k - 1 : before[i] = s[i]
  BY LenProperties
<1>2. /\ after \in Seq(Word)
      /\ Len(after) = Len(s) - k
      /\ \A i \in 1 .. Len(s) - k : after[i] = s[k + i]
  BY LenProperties
<1>3. Buffer!Without(s, k) = before \o after
  BY DEF Buffer!Without
<1> HIDE DEF before, after
<1>4. /\ before \o after \in Seq(Word)
      /\ Len(before \o after) = Len(s) - 1
      /\ \A i \in 1 .. Len(s) - 1 :
           (before \o after)[i] = IF i < k THEN before[i] ELSE after[i - (k - 1)]
  <2>1. /\ before \o after \in Seq(Word)
        /\ Len(before \o after) = (k - 1) + (Len(s) - k)
        /\ \A i \in 1 .. (k - 1) + (Len(s) - k) :
             (before \o after)[i] = IF i <= k - 1 THEN before[i] ELSE after[i - (k - 1)]
    <3>1. /\ before \o after \in Seq(Word)
          /\ Len(before \o after) = Len(before) + Len(after)
          /\ \A i \in 1 .. Len(before) + Len(after) :
               (before \o after)[i] = IF i <= Len(before) THEN before[i]
                                      ELSE after[i - Len(before)]
      BY <1>1, <1>2, ConcatProperties
    <3> QED
      BY <3>1, <1>1, <1>2
  <2>2. /\ (k - 1) + (Len(s) - k) = Len(s) - 1
        /\ \A i \in 1 .. Len(s) - 1 : i <= k - 1 <=> i < k
    BY LenProperties
  <2> QED
    BY <2>1, <2>2
<1>5. ASSUME NEW i \in 1 .. Len(s) - 1, ~(i < k)
      PROVE  after[i - (k - 1)] = s[i + 1]
  <2>1. i - (k - 1) \in 1 .. Len(s) - k /\ k + (i - (k - 1)) = i + 1
    BY <1>5, LenProperties
  <2> QED
    BY <2>1, <1>2
<1> QED
  BY <1>1, <1>3, <1>4, <1>5, LenProperties

(* A full queue whose head is at 0 grows without changing its contents;    *)
(* any other one loses the word in its last position.                      *)
LEMMA GrownKeepsMost ==
  ASSUME NEW q, Ring(q), q.used = q.size
  PROVE  /\ Ring(grown(q))
         /\ grown(q).used = q.used
         /\ grown(q).used < grown(q).size
         /\ q.head = 0 => Contents(grown(q)) = Contents(q)
         /\ q.head > 0 =>
              LET k == q.size - q.head + 1
              IN  /\ k \in 1 .. q.used
                  /\ Contents(grown(q)) = Append(Buffer!Without(Contents(q), k), Cleared)
<1> DEFINE g == grown(q)
           m == q.size - q.head + 1
<1>1. /\ g.size = 2 * q.size /\ g.head = 0 /\ g.used = q.used /\ g.tail = q.used
      /\ g.slots = [i \in 0 .. 2 * q.size |-> IF i < q.size THEN copyFromHead(q, i) ELSE Cleared]
      /\ g \in [slots : {g.slots}, size : {g.size}, used : {g.used}, tail : {g.tail},
                head : {g.head}]
  BY DEF grown
<1>2. \A k \in 0 .. g.size : fromHead(g, k) = k
  BY <1>1, RingType DEF fromHead
<1>3. \A i \in 0 .. q.size - 1 : copyFromHead(q, i) \in Word
  BY RingType DEF copyFromHead
<1>4. Ring(g)
  <2>1. g.slots \in [0 .. g.size -> Word]
    BY <1>1, <1>3, RingType DEF Word, Cleared
  <2>2. /\ g.slots \in [Positions(g) -> Word]
        /\ g.size \in Nat \ {0}
        /\ g.used \in 0 .. g.size
        /\ g.tail \in Positions(g)
        /\ g.head \in Positions(g)
    BY <1>1, <2>1, RingType DEF Positions
  <2>3. g.tail = fromHead(g, g.used)
    BY <1>1, <1>2, <2>2
  <2>4. \A k \in g.used .. g.size : g.slots[fromHead(g, k)] = Cleared
    BY <1>1, <1>2, RingType
  <2> QED
    BY <1>1, <2>2, <2>3, <2>4 DEF Ring
<1>5. /\ Contents(g) \in Seq(Word)
      /\ Len(Contents(g)) = q.used
  <2>1. Contents(g) \in Seq(Word) /\ Len(Contents(g)) = g.used
    BY <1>4, ContentsType
  <2> QED
    BY <1>1, <2>1
<1>6. ASSUME NEW i \in 1 .. q.used
      PROVE  Contents(g)[i] = copyFromHead(q, i - 1)
  <2>1. \A j \in 1 .. g.used : Contents(g)[j] = g.slots[fromHead(g, j - 1)]
    BY <1>4, ContentsType
  <2>2. i - 1 \in 0 .. g.size /\ i - 1 < q.size
    BY <1>1, RingType
  <2>3. Contents(g)[i] = g.slots[fromHead(g, i - 1)]
    BY <1>1, <2>1
  <2> QED
    BY <1>1, <1>2, <2>2, <2>3
<1>7. /\ Contents(q) \in Seq(Word)
      /\ Len(Contents(q)) = q.used
      /\ \A i \in 1 .. q.used : Contents(q)[i] = q.slots[fromHead(q, i - 1)]
  BY ContentsType
<1>8. ASSUME q.head = 0
      PROVE  Contents(g) = Contents(q)
  <2>1. ASSUME NEW i \in 1 .. q.used
        PROVE  Contents(g)[i] = Contents(q)[i]
    <3>1. copyFromHead(q, i - 1) = q.slots[fromHead(q, i - 1)]
      BY <1>8, RingType DEF copyFromHead, fromHead
    <3> QED
      BY <3>1, <1>6, <1>7
  <2> QED
    BY <1>5, <1>7, <2>1, SeqEqual
<1>9. ASSUME q.head > 0
      PROVE  /\ m \in 1 .. q.used
             /\ Contents(g) = Append(Buffer!Without(Contents(q), m), Cleared)
  <2> DEFINE b == Contents(q)
             rest == Buffer!Without(b, m)
  <2>1. m \in 1 .. q.used
    BY <1>9, RingType
  <2>2. /\ rest \in Seq(Word)
        /\ Len(rest) = q.used - 1
        /\ \A i \in 1 .. q.used - 1 : rest[i] = IF i < m THEN b[i] ELSE b[i + 1]
    <3>1. b \in Seq(Word) /\ m \in 1 .. Len(b)
      BY <1>7, <2>1
    <3> HIDE DEF b, m
    <3>2. /\ rest \in Seq(Word)
          /\ Len(rest) = Len(b) - 1
          /\ \A i \in 1 .. Len(b) - 1 : rest[i] = IF i < m THEN b[i] ELSE b[i + 1]
      BY <3>1, WithoutProperties
    <3>3. Len(b) = q.used
      BY <1>7 DEF b
    <3> QED
      BY <3>2, <3>3
  <2>3. ASSUME NEW i \in 1 .. q.used - 1
        PROVE  copyFromHead(q, i - 1) = rest[i]
    <3>1. CASE i < m
      <4>1. fromHead(q, i - 1) = q.head + (i - 1)
        BY <3>1, RingType DEF fromHead
      <4>2. i - 1 < q.size - q.head
        BY <3>1, RingType
      <4>3. i \in 1 .. q.used
        BY RingType
      <4> QED
        BY <3>1, <4>1, <4>2, <4>3, <1>7, <2>2 DEF copyFromHead
    <3>2. CASE ~(i < m)
      <4>1. fromHead(q, (i + 1) - 1) = (i - 1) + q.head - q.size
        BY <3>2, RingType DEF fromHead
      <4>2. ~(i - 1 < q.size - q.head)
        BY <3>2, RingType
      <4>3. i + 1 \in 1 .. q.used
        BY RingType
      <4> QED
        BY <3>2, <4>1, <4>2, <4>3, <1>7, <2>2 DEF copyFromHead
    <3> QED
      BY <3>1, <3>2
  <2>4. copyFromHead(q, q.used - 1) = Cleared
    <3>1. q.slots[fromHead(q, q.used)] = Cleared
      BY RingType DEF Ring
    <3>2. fromHead(q, q.used) = (q.used - 1) + q.head - q.size
      BY <1>9, RingType DEF fromHead
    <3> QED
      BY <1>9, <3>1, <3>2, RingType DEF copyFromHead
  <2>5. Cleared \in Word
    BY DEF Word, Cleared
  <2>6. /\ Append(rest, Cleared) \in Seq(Word)
        /\ Len(Append(rest, Cleared)) = q.used
        /\ \A i \in 1 .. q.used - 1 : Append(rest, Cleared)[i] = rest[i]
        /\ Append(rest, Cleared)[q.used] = Cleared
    BY <2>2, <2>5, AppendProperties, RingType
  <2>7. ASSUME NEW i \in 1 .. q.used
        PROVE  Contents(g)[i] = Append(rest, Cleared)[i]
    <3>1. CASE i = q.used
      BY <3>1, <1>6, <2>4, <2>6
    <3>2. CASE i # q.used
      <4>1. i \in 1 .. q.used - 1
        BY <3>2, RingType
      <4> QED
        BY <4>1, <1>6, <2>3, <2>6
    <3> QED
      BY <3>1, <3>2
  <2> QED
    BY <1>5, <2>1, <2>6, <2>7, SeqEqual
<1> QED
  BY <1>1, <1>4, <1>8, <1>9, RingType

(* Has the queue, when a word is put into it, to drop one?                 *)
Drops(q) == q.used = q.size /\ q.head > 0

(* ___q_enqueue as the abstract specification sees it.                     *)
LEMMA EnqueueAppends ==
  ASSUME NEW q, Ring(q), NEW w \in Word
  PROVE  /\ Ring(enqueue(q, w))
         /\ enqueue(q, w).used = q.used + 1
         /\ ~Drops(q) => Contents(enqueue(q, w)) = Append(Contents(q), w)
         /\ Drops(q) =>
              \E k \in 1 .. Len(Contents(q)) :
                Contents(enqueue(q, w)) =
                  Append(Append(Buffer!Without(Contents(q), k), Cleared), w)
<1> DEFINE r == maybeRealloc(q)
<1>1. /\ enqueue(q, w) = Put(r, w)
  BY DEF enqueue
<1>2. CASE q.used # q.size
  <2>1. r = q /\ q.used < q.size
    BY <1>2, RingType DEF maybeRealloc
  <2> QED
    BY <1>1, <1>2, <2>1, PutAppends DEF Drops
<1>3. CASE q.used = q.size
  <2>1. r = grown(q)
    BY <1>3 DEF maybeRealloc
  <2>2. /\ Ring(r) /\ r.used = q.used /\ r.used < r.size
        /\ q.head = 0 => Contents(r) = Contents(q)
    BY <1>3, <2>1, GrownKeepsMost
  <2>3. /\ Ring(Put(r, w))
        /\ Contents(Put(r, w)) = Append(Contents(r), w)
        /\ Put(r, w).used = r.used + 1
    BY <2>2, PutAppends
  <2>4. ASSUME Drops(q)
        PROVE  \E k \in 1 .. Len(Contents(q)) :
                 Contents(r) = Append(Buffer!Without(Contents(q), k), Cleared)
    <3>1. Len(Contents(q)) = q.used
      BY ContentsType
    <3> DEFINE k == q.size - q.head + 1
    <3>2. /\ k \in 1 .. q.used
          /\ Contents(r) = Append(Buffer!Without(Contents(q), k), Cleared)
      BY <1>3, <2>1, <2>4, GrownKeepsMost DEF Drops
    <3> QED
      BY <3>1, <3>2
  <2>5. ~Drops(q) => q.head = 0
    BY <1>3, RingType DEF Drops
  <2> HIDE DEF r
  <2> QED
    BY <1>1, <2>2, <2>3, <2>4, <2>5
<1> QED
  BY <1>2, <1>3

(* ___q_dequeue takes the first word.                                      *)
LEMMA DequeueTakesFirst ==
  ASSUME NEW q, Ring(q), q.used > 0
  PROVE  /\ Ring(dequeue(q))
         /\ dequeue(q).used = q.used - 1
         /\ Contents(q) # <<>>
         /\ Contents(q)[1] = q.slots[q.head]
         /\ Contents(dequeue(q)) = Tail(Contents(q))
<1> DEFINE d == dequeue(q)
<1>1. /\ d.size = q.size /\ d.tail = q.tail
      /\ d.used = q.used - 1
      /\ d.head = step(q, q.head)
      /\ d.slots = [q.slots EXCEPT ![q.head] = Cleared]
      /\ d \in [slots : {d.slots}, size : {d.size}, used : {d.used}, tail : {d.tail},
                head : {d.head}]
  BY DEF dequeue, Ring
<1>2. fromHead(q, 0) = q.head
  BY RingType DEF fromHead
<1>3. \A k \in 0 .. q.size - 1 : fromHead(d, k) = fromHead(q, k + 1)
  BY <1>1, NextHead
<1>4. fromHead(d, q.size) = q.head
  BY <1>1, NextHead
<1>5. ASSUME NEW k \in 0 .. q.size - 1
      PROVE  d.slots[fromHead(d, k)] = q.slots[fromHead(q, k + 1)]
  <2>1. k + 1 \in 0 .. q.size /\ k + 1 # 0 /\ 0 \in 0 .. q.size
    BY RingType
  <2>2. fromHead(q, k + 1) # q.head /\ fromHead(q, k + 1) \in 0 .. q.size
    BY <1>2, <2>1, FromHeadInside, FromHeadInjective
  <2> QED
    BY <1>1, <1>3, <2>2, RingType
<1>6. d.slots[q.head] = Cleared
  BY <1>1, RingType
<1>7. Ring(d)
  <2>1. d.slots \in [0 .. q.size -> Word]
    BY <1>1, RingType DEF Word, Cleared
  <2>2. d.head \in 0 .. q.size
    BY <1>1, RingType DEF step
  <2>3. /\ d.slots \in [Positions(d) -> Word]
        /\ d.size \in Nat \ {0}
        /\ d.used \in 0 .. d.size
        /\ d.tail \in Positions(d)
        /\ d.head \in Positions(d)
    BY <1>1, <2>1, <2>2, RingType DEF Positions
  <2>4. d.tail = fromHead(d, d.used)
    <3>1. q.tail = fromHead(q, q.used)
      BY DEF Ring
    <3>2. q.used - 1 \in 0 .. q.size - 1 /\ (q.used - 1) + 1 = q.used
      BY RingType
    <3> QED
      BY <1>1, <1>3, <3>1, <3>2
  <2>5. \A k \in d.used .. d.size : d.slots[fromHead(d, k)] = Cleared
    <3>1. ASSUME NEW k \in q.used - 1 .. q.size
          PROVE  d.slots[fromHead(d, k)] = Cleared
      <4>1. CASE k = q.size
        BY <4>1, <1>4, <1>6
      <4>2. CASE k # q.size
        <5>1. k \in 0 .. q.size - 1 /\ k + 1 \in q.used .. q.size
          BY <4>2, RingType
        <5> QED
          BY <5>1, <1>5 DEF Ring
      <4> QED
        BY <4>1, <4>2
    <3> QED
      BY <1>1, <3>1
  <2> QED
    BY <1>1, <2>3, <2>4, <2>5 DEF Ring
<1> DEFINE b == Contents(q)
           c == Contents(d)
<1>8. /\ b \in Seq(Word)
      /\ Len(b) = q.used
      /\ \A i \in 1 .. q.used : b[i] = q.slots[fromHead(q, i - 1)]
  BY ContentsType
<1>9. /\ c \in Seq(Word)
      /\ Len(c) = d.used
      /\ \A i \in 1 .. d.used : c[i] = d.slots[fromHead(d, i - 1)]
  BY <1>7, ContentsType
<1>10. b # <<>> /\ b[1] = q.slots[q.head]
  <2>1. 1 \in 1 .. q.used /\ 1 - 1 = 0
    BY RingType
  <2> QED
    BY <1>2, <1>8, <2>1, RingType
<1>11. ASSUME NEW i \in 1 .. q.used - 1
       PROVE  c[i] = b[i + 1]
  <2>1. /\ i - 1 \in 0 .. q.size - 1
        /\ (i - 1) + 1 = (i + 1) - 1
        /\ i + 1 \in 1 .. q.used
    BY RingType
  <2>2. d.slots[fromHead(d, i - 1)] = q.slots[fromHead(q, (i - 1) + 1)]
    BY <2>1, <1>5
  <2> QED
    BY <1>1, <1>8, <1>9, <2>1, <2>2
<1>12. Len(c) = q.used - 1
  BY <1>1, <1>9
<1> HIDE DEF b, c
<1>13. c = Tail(b)
  <2>1. /\ Tail(b) \in Seq(Word)
        /\ Len(Tail(b)) = q.used - 1
        /\ \A i \in 1 .. q.used - 1 : Tail(b)[i] = b[i + 1]
    BY <1>8, <1>10, HeadTailProperties
  <2> QED
    BY <1>9, <1>11, <1>12, <2>1, SeqEqual
<1> QED
  BY <1>1, <1>7, <1>10, <1>13 DEF b, c

-----------------------------------------------------------------------------
(* The stream of words.  Reads(s, e): a reader that expects e takes every  *)
(* word of s for what it is meant as, and an event after the last.         *)
Reads(s, e) ==
  \A i \in 1 .. Len(s) + 1 :
    (IF i = 1 THEN e ELSE follows(s[i - 1])) = (IF i <= Len(s) THEN meant(s[i]) ELSE "event")

LEMMA ReadsConcat ==
  ASSUME NEW s \in Seq(Word), NEW t \in Seq(Word), NEW e, Reads(s, e), Reads(t, "event")
  PROVE  Reads(s \o t, e)
<1> DEFINE u == s \o t
           m == Len(s)
           n == Len(t)
<1>1. m \in Nat /\ n \in Nat
  BY LenProperties
<1>2. /\ Len(u) = m + n
      /\ \A i \in 1 .. m : u[i] = s[i]
      /\ \A i \in 1 .. n : u[m + i] = t[i]
  BY <1>1
<1> HIDE DEF u, m, n
<1>3. \A i \in 1 .. m + 1 :
        (IF i = 1 THEN e ELSE follows(s[i - 1])) = (IF i <= m THEN meant(s[i]) ELSE "event")
  BY DEF Reads, m
<1>4. \A i \in 1 .. n + 1 :
        (IF i = 1 THEN "event" ELSE follows(t[i - 1])) =
        (IF i <= n THEN meant(t[i]) ELSE "event")
  BY DEF Reads, n
<1>5. ASSUME NEW i \in 1 .. m + n + 1
      PROVE  (IF i = 1 THEN e ELSE follows(u[i - 1])) =
             (IF i <= m + n THEN meant(u[i]) ELSE "event")
  <2>1. CASE i <= m
    <3>1. i \in 1 .. m /\ i \in 1 .. m + 1 /\ i <= m + n /\ (i # 1 => i - 1 \in 1 .. m)
      BY <1>1, <2>1
    <3> QED
      BY <3>1, <2>1, <1>2, <1>3
  <2>2. CASE i = m + 1
    <3>1. (IF i = 1 THEN e ELSE follows(u[i - 1])) = "event"
      <4>1. i \in 1 .. m + 1 /\ ~(i <= m) /\ (i # 1 => i - 1 \in 1 .. m)
        BY <1>1, <2>2
      <4> QED
        BY <4>1, <1>2, <1>3
    <3>2. (IF i <= m + n THEN meant(u[i]) ELSE "event") = "event"
      <4>1. 1 \in 1 .. n + 1 /\ (1 <= n <=> i <= m + n) /\ (1 <= n => 1 \in 1 .. n)
        BY <1>1, <2>2
      <4>2. 1 <= n => u[i] = t[1]
        BY <4>1, <2>2, <1>2
      <4> QED
        BY <4>1, <4>2, <1>4
    <3> QED
      BY <3>1, <3>2
  <2>3. CASE i > m + 1
    <3> DEFINE j == i - m
    <3>1. /\ j \in 1 .. n + 1 /\ j # 1 /\ i # 1
          /\ i = m + j /\ i - 1 = m + (j - 1)
          /\ j - 1 \in 1 .. n
          /\ (i <= m + n <=> j <= n)
          /\ (j <= n => j \in 1 .. n)
      BY <1>1, <2>3
    <3> HIDE DEF j
    <3>2. u[i - 1] = t[j - 1] /\ (j <= n => u[i] = t[j])
      BY <3>1, <1>2
    <3> QED
      BY <3>1, <3>2, <1>4
  <2> QED
    BY <1>1, <2>1, <2>2, <2>3
<1> QED
  BY <1>2, <1>5 DEF Reads, u

(* What a reader in step expects after the first word.                     *)
LEMMA ReadsTail ==
  ASSUME NEW s \in Seq(Word), s # <<>>, NEW e, Reads(s, e)
  PROVE  e = meant(s[1]) /\ Reads(Tail(s), follows(s[1]))
<1> DEFINE n == Len(s)
           u == Tail(s)
<1>1. /\ n \in Nat /\ n > 0
      /\ Len(u) = n - 1
      /\ \A i \in 1 .. n - 1 : u[i] = s[i + 1]
  BY HeadTailProperties, LenProperties, EmptySeq
<1> HIDE DEF n, u
<1>2. \A i \in 1 .. n + 1 :
        (IF i = 1 THEN e ELSE follows(s[i - 1])) = (IF i <= n THEN meant(s[i]) ELSE "event")
  BY DEF Reads, n
<1>3. e = meant(s[1])
  <2>1. 1 \in 1 .. n + 1 /\ 1 <= n
    BY <1>1
  <2> QED
    BY <2>1, <1>2
<1>4. ASSUME NEW i \in 1 .. n
      PROVE  (IF i = 1 THEN follows(s[1]) ELSE follows(u[i - 1])) =
             (IF i <= n - 1 THEN meant(u[i]) ELSE "event")
  <2>1. /\ i + 1 \in 1 .. n + 1 /\ i + 1 # 1 /\ (i + 1) - 1 = i
        /\ (i + 1 <= n <=> i <= n - 1)
        /\ (i <= n - 1 => i \in 1 .. n - 1)
    BY <1>1
  <2>2. i # 1 => u[i - 1] = s[i]
    <3>1. i # 1 => i - 1 \in 1 .. n - 1 /\ (i - 1) + 1 = i
      BY <1>1
    <3> QED
      BY <3>1, <1>1
  <2>3. i <= n - 1 => u[i] = s[i + 1]
    BY <2>1, <1>1
  <2>4. follows(s[i]) = IF i + 1 <= n THEN meant(s[i + 1]) ELSE "event"
    BY <2>1, <1>2
  <2>5. CASE i = 1
    BY <2>1, <2>3, <2>4, <2>5
  <2>6. CASE i # 1
    BY <2>1, <2>2, <2>3, <2>4, <2>6
  <2> QED
    BY <2>5, <2>6
<1>5. Reads(u, follows(s[1]))
  <2>1. Len(u) + 1 = n
    BY <1>1
  <2>2. \A i \in 1 .. n : i <= Len(u) <=> i <= n - 1
    BY <1>1
  <2> QED
    BY <1>4, <2>1, <2>2 DEF Reads
<1> QED
  BY <1>3, <1>5 DEF u

(* Every event is a stream that begins and ends between events.            *)
LEMMA EventWordsRead ==
  ASSUME NEW late \in BOOLEAN, NEW w \in EventWords(late)
  PROVE  w \in Seq(Word) /\ Reads(w, "event")
<1>1. TimeWords(late) \in Seq(Word) /\ Reads(TimeWords(late), "event")
  <2>1. CASE TimeWords(late) = <<"delta">>
    BY <2>1 DEF Word, Reads, follows, meant
  <2>2. CASE TimeWords(late) = <<"reset", "high", "low">>
    <3> DEFINE s == <<"reset", "high", "low">>
    <3>1. /\ s \in Seq(Word)
          /\ Len(s) = 3 /\ s[1] = "reset" /\ s[2] = "high" /\ s[3] = "low"
      BY DEF Word
    <3> HIDE DEF s
    <3>2. Reads(s, "event")
      <4>1. ASSUME NEW i \in 1 .. 4
            PROVE  (IF i = 1 THEN "event" ELSE follows(s[i - 1])) =
                   (IF i <= 3 THEN meant(s[i]) ELSE "event")
        <5>1. CASE i = 1  BY <5>1, <3>1 DEF follows, meant
        <5>2. CASE i = 2  BY <5>2, <3>1 DEF follows, meant
        <5>3. CASE i = 3  BY <5>3, <3>1 DEF follows, meant
        <5>4. CASE i = 4  BY <5>4, <3>1 DEF follows, meant
        <5> QED
          BY <5>1, <5>2, <5>3, <5>4
      <4> QED
        BY <4>1, <3>1 DEF Reads
    <3> QED
      BY <2>2, <3>1, <3>2 DEF s
  <2> QED
    BY <2>1, <2>2 DEF TimeWords, absoluteTime
<1>2. ASSUME NEW t \in {<<"device">>, <<"device", "device">>, <<"device", "delta", "device">>}
      PROVE  t \in Seq(Word) /\ Reads(t, "event")
  <2>1. t \in Seq(Word)
    <3>1. CASE t = <<"device">>  BY <3>1 DEF Word
    <3>2. CASE t = <<"device", "device">>  BY <3>2 DEF Word
    <3>3. CASE t = <<"device", "delta", "device">>  BY <3>3 DEF Word
    <3> QED
      BY <3>1, <3>2, <3>3
  <2>2. /\ Len(t) \in Nat
        /\ \A i \in 1 .. Len(t) : t[i] \in {"device", "delta"}
    OBVIOUS
  <2>3. \A i \in 1 .. Len(t) : meant(t[i]) = "event" /\ follows(t[i]) = "event"
    BY <2>2 DEF meant, follows
  <2>4. \A i \in 1 .. Len(t) + 1 : i # 1 => i - 1 \in 1 .. Len(t)
    BY <2>2
  <2>5. \A i \in 1 .. Len(t) + 1 : i <= Len(t) => i \in 1 .. Len(t)
    BY <2>2
  <2> QED
    BY <2>1, <2>3, <2>4, <2>5 DEF Reads
<1>3. PICK t \in {<<"device">>, <<"device", "device">>, <<"device", "delta", "device">>} :
        w = TimeWords(late) \o t
  BY DEF EventWords
<1> HIDE DEF TimeWords
<1> QED
  BY <1>1, <1>2, <1>3, ReadsConcat, ConcatProperties

(* A word moves from the event being handled to the queue.                 *)
LEMMA AppendHead ==
  ASSUME NEW s \in Seq(Word), NEW t \in Seq(Word), t # <<>>
  PROVE  /\ Head(t) \in Word
         /\ Tail(t) \in Seq(Word)
         /\ Append(s, Head(t)) \o Tail(t) = s \o t
<1> DEFINE h == Head(t)
           r == Tail(t)
           m == Len(s)
           n == Len(t)
<1>1. /\ m \in Nat /\ n \in Nat /\ n > 0
      /\ h = t[1] /\ h \in Word
      /\ r \in Seq(Word) /\ Len(r) = n - 1
      /\ \A i \in 1 .. n - 1 : r[i] = t[i + 1]
  BY HeadTailProperties, LenProperties, EmptySeq
<1> HIDE DEF h, r
<1> DEFINE a == Append(s, h)
<1>2. /\ a \in Seq(Word)
      /\ Len(a) = m + 1
      /\ \A i \in 1 .. m : a[i] = s[i]
      /\ a[m + 1] = h
  BY <1>1, AppendProperties
<1> DEFINE u == a \o r
           v == s \o t
<1> HIDE DEF a, m, n
<1>3. /\ u \in Seq(Word)
      /\ Len(u) = (m + 1) + (n - 1)
      /\ \A i \in 1 .. m + n : u[i] = IF i <= m + 1 THEN a[i] ELSE r[i - (m + 1)]
  <2>1. /\ a \o r \in Seq(Word)
        /\ Len(a \o r) = Len(a) + Len(r)
        /\ \A i \in 1 .. Len(a) + Len(r) :
             (a \o r)[i] = IF i <= Len(a) THEN a[i] ELSE r[i - Len(a)]
    BY <1>1, <1>2, ConcatProperties
  <2>2. Len(a) + Len(r) = m + n
    BY <1>1, <1>2
  <2> QED
    BY <1>1, <1>2, <2>1, <2>2
<1>4. /\ v \in Seq(Word)
      /\ Len(v) = m + n
      /\ \A i \in 1 .. m + n : v[i] = IF i <= m THEN s[i] ELSE t[i - m]
  BY <1>1, ConcatProperties DEF m, n
<1> HIDE DEF u, v
<1>5. ASSUME NEW i \in 1 .. m + n
      PROVE  u[i] = v[i]
  <2>1. CASE i <= m
    <3>1. i \in 1 .. m /\ i <= m + 1
      BY <2>1, <1>1
    <3> QED
      BY <3>1, <2>1, <1>2, <1>3, <1>4
  <2>2. CASE i = m + 1
    <3>1. /\ ~(i <= m) /\ i - m = 1 /\ i <= m + 1
      BY <2>2, <1>1
    <3> QED
      BY <3>1, <2>2, <1>1, <1>2, <1>3, <1>4
  <2>3. CASE i > m + 1
    <3>1. /\ ~(i <= m + 1) /\ ~(i <= m)
          /\ i - (m + 1) \in 1 .. n - 1
          /\ (i - (m + 1)) + 1 = i - m
      BY <2>3, <1>1
    <3> QED
      BY <3>1, <1>1, <1>3, <1>4
  <2> QED
    BY <1>1, <2>1, <2>2, <2>3
<1>6. Len(u) = m + n
  BY <1>1, <1>3
<1>7. u = v
  BY <1>3, <1>4, <1>5, <1>6, SeqEqual
<1> QED
  BY <1>1, <1>7 DEF u, v, a, h, r

-----------------------------------------------------------------------------
(***************************************************************************)
(* The inductive invariant.  ReaderInStep is strengthened by what it says  *)
(* of the end of the pending words: an event's last word is the last of a  *)
(* stream that a reader of events reads whole.                             *)
(***************************************************************************)
IInv ==
  /\ TypeOK
  /\ WordForEverySignal
  /\ ~wordLost => Reads(pending, expects)

(* The first word of two sequences one after the other.                    *)
LEMMA TailOfConcat ==
  ASSUME NEW s \in Seq(Word), NEW t \in Seq(Word), s # <<>>
  PROVE  /\ s \o t \in Seq(Word) /\ s \o t # <<>>
         /\ (s \o t)[1] = s[1]
         /\ Tail(s \o t) = Tail(s) \o t
  BY ConcatProperties, HeadTailProperties

LEMMA PendingType ==
  ASSUME TypeOK
  PROVE  Contents(queue) \in Seq(Word) /\ toQueue \in Seq(Word) /\ pending \in Seq(Word)
  BY ContentsType, ConcatProperties DEF TypeOK, pending

LEMMA InitIInv == Init => IInv
<1> SUFFICES ASSUME Init PROVE IInv
  OBVIOUS
<1>1. TypeOK
  <2>1. Ring(queue) /\ toQueue \in Seq(Word)
    BY EmptyQueue DEF Init
  <2>2. signals \in 0 .. MaxSmallInteger
    BY DEF Init
  <2> QED
    BY <2>1, <2>2 DEF Init, TypeOK
<1>2. WordForEverySignal
  BY EmptyQueue, RingType DEF Init, WordForEverySignal, emptyQueue
<1>3. pending = <<>>
  BY EmptyQueue DEF Init, pending
<1>4. Reads(pending, expects)
  <2>1. expects = "event" /\ Len(pending) = 0
    BY <1>3 DEF Init
  <2>2. \A i \in 1 .. 0 + 1 : i = 1 /\ ~(i <= 0)
    OBVIOUS
  <2> QED
    BY <2>1, <2>2 DEF Reads
<1> QED
  BY <1>1, <1>2, <1>4 DEF IInv

LEMMA HandleEventKeeps == IInv /\ HandleEvent => IInv'
<1> SUFFICES ASSUME IInv, HandleEvent PROVE IInv'
  OBVIOUS
<1>0. PICK late \in BOOLEAN : \E w \in EventWords(late) : toQueue' = w
  BY DEF HandleEvent
<1>1. PICK w \in EventWords(late) : toQueue' = w
  BY <1>0
<1>2. w \in Seq(Word) /\ Reads(w, "event")
  BY EventWordsRead
<1>3. TypeOK'
  BY <1>1, <1>2 DEF IInv, TypeOK, HandleEvent
<1>4. WordForEverySignal'
  BY DEF IInv, WordForEverySignal, HandleEvent
<1>5. ASSUME ~wordLost'
      PROVE  Reads(pending, expects)'
  <2>1. toQueue = <<>> /\ queue' = queue /\ expects' = expects /\ ~wordLost
    BY <1>5 DEF HandleEvent
  <2>2. Contents(queue) \in Seq(Word)
    BY PendingType DEF IInv
  <2>3. pending = Contents(queue)
    BY <2>1, <2>2, ConcatEmptySeq DEF pending
  <2>4. Reads(Contents(queue), expects)
    BY <2>1, <2>3 DEF IInv
  <2>5. Reads(Contents(queue) \o w, expects)
    BY <1>2, <2>2, <2>4, ReadsConcat
  <2>6. pending' = Contents(queue) \o w
    BY <1>1, <2>1 DEF pending
  <2> QED
    BY <2>1, <2>5, <2>6
<1> QED
  BY <1>3, <1>4, <1>5 DEF IInv

LEMMA QueueWordKeeps == IInv /\ QueueInputSemaphoreWord => IInv'
<1> SUFFICES ASSUME IInv, QueueInputSemaphoreWord PROVE IInv'
  OBVIOUS
<1> DEFINE w == Head(toQueue)
<1>1. toQueue # <<>> /\ Ring(queue) /\ toQueue \in Seq(Word)
  BY DEF IInv, TypeOK, QueueInputSemaphoreWord
<1>2. w \in Word /\ Tail(toQueue) \in Seq(Word)
  BY <1>1, AppendHead
<1>3. /\ Ring(queue')
      /\ queue'.used = queue.used + 1
      /\ ~Drops(queue) => Contents(queue') = Append(Contents(queue), w)
  BY <1>1, <1>2, EnqueueAppends DEF QueueInputSemaphoreWord
<1>4. signals \in 0 .. MaxSmallInteger /\ signals' \in 0 .. MaxSmallInteger
      /\ signals' <= signals + 1
  BY DEF IInv, TypeOK, QueueInputSemaphoreWord, signalOnce
<1>5. TypeOK'
  BY <1>2, <1>3, <1>4 DEF IInv, TypeOK, QueueInputSemaphoreWord
<1>6. WordForEverySignal'
  <2>1. queue.used \in Nat
    BY <1>1, RingType
  <2> QED
    BY <1>3, <1>4, <2>1 DEF IInv, WordForEverySignal, QueueInputSemaphoreWord
<1>7. ASSUME ~wordLost'
      PROVE  Reads(pending, expects)'
  <2>1. ~wordLost /\ ~Drops(queue) /\ expects' = expects
    BY <1>7 DEF QueueInputSemaphoreWord, Drops
  <2>2. pending' = Append(Contents(queue), w) \o Tail(toQueue)
    BY <1>3, <2>1 DEF pending, QueueInputSemaphoreWord
  <2>3. pending' = pending
    BY <1>1, <2>2, ContentsType, AppendHead DEF pending
  <2> QED
    BY <2>1, <2>3 DEF IInv
<1> QED
  BY <1>5, <1>6, <1>7 DEF IInv

(* Steps that leave the words alone.                                       *)
LEMMA PendingSame ==
  ASSUME IInv, UNCHANGED <<queue, toQueue, expects, wordLost>>
  PROVE  (~wordLost => Reads(pending, expects))'
<1>1. pending' = pending
  BY DEF pending
<1> QED
  BY <1>1 DEF IInv

LEMMA NextPhaseKeeps == IInv /\ NextPhase => IInv'
  BY PendingSame DEF IInv, TypeOK, WordForEverySignal, NextPhase

LEMMA InputSemaphoreKeeps == IInv /\ primitiveInputSemaphore => IInv'
  BY PendingSame DEF IInv, TypeOK, WordForEverySignal, primitiveInputSemaphore

LEMMA WaitKeeps == IInv /\ Wait => IInv'
<1> SUFFICES ASSUME IInv, Wait PROVE IInv'
  OBVIOUS
<1>1. signals \in 0 .. MaxSmallInteger /\ signals > 0 /\ queue.used \in Nat
  BY RingType DEF IInv, TypeOK, Wait
<1>2. signals' \in 0 .. MaxSmallInteger
  BY <1>1 DEF Wait
<1>3. TypeOK'
  BY <1>2 DEF IInv, TypeOK, Wait
<1>4. WordForEverySignal'
  BY <1>1 DEF IInv, WordForEverySignal, Wait
<1> QED
  BY <1>3, <1>4, PendingSame DEF IInv, Wait

LEMMA InputWordKeeps == IInv /\ primitiveInputWord => IInv'
<1> SUFFICES ASSUME IInv, primitiveInputWord PROVE IInv'
  OBVIOUS
<1> DEFINE b == Contents(queue)
           w == b[1]
<1>1. Ring(queue) /\ queue.used > 0 /\ queue' = dequeue(queue)
  BY DEF IInv, TypeOK, primitiveInputWord
<1>2. /\ Ring(queue')
      /\ queue'.used = queue.used - 1
      /\ b # <<>> /\ w = queue.slots[queue.head]
      /\ Contents(queue') = Tail(b)
  BY <1>1, DequeueTakesFirst
<1>3. b \in Seq(Word) /\ toQueue \in Seq(Word) /\ w \in Word
  BY <1>2, PendingType, HeadTailProperties DEF IInv
<1>4. expects' \in ExpectedAfter(w) /\ expects' \in {"event", "high", "low"}
  BY <1>2 DEF primitiveInputWord, ExpectedAfter
<1>5. TypeOK'
  BY <1>2, <1>4 DEF IInv, TypeOK, primitiveInputWord
<1>6. WordForEverySignal'
  <2>1. queue.used \in Nat /\ signals \in Nat
    BY <1>1, RingType DEF IInv, TypeOK
  <2> QED
    BY <1>2, <2>1 DEF IInv, WordForEverySignal, primitiveInputWord
<1>7. ASSUME ~wordLost'
      PROVE  Reads(pending, expects)'
  <2>1. ~wordLost /\ Reads(pending, expects)
    BY <1>7 DEF IInv, primitiveInputWord
  <2>2. /\ pending \in Seq(Word) /\ pending # <<>>
        /\ pending[1] = w
        /\ Tail(pending) = Tail(b) \o toQueue
    BY <1>2, <1>3, TailOfConcat DEF pending
  <2>3. pending' = Tail(pending)
    BY <1>2, <2>2 DEF pending, primitiveInputWord
  <2>4. expects = meant(w) /\ Reads(Tail(pending), follows(w))
    BY <2>1, <2>2, ReadsTail
  <2>5. expects' = follows(w)
    BY <1>3, <1>4, <2>4 DEF ExpectedAfter, meant, follows, Word
  <2> QED
    BY <2>3, <2>4, <2>5
<1> QED
  BY <1>5, <1>6, <1>7 DEF IInv

LEMMA NextIInv == IInv /\ [Next]_vars => IInv'
<1> SUFFICES ASSUME IInv, [Next]_vars PROVE IInv'
  OBVIOUS
<1>1. CASE UNCHANGED vars
  BY <1>1, PendingSame DEF vars, IInv, TypeOK, WordForEverySignal
<1> QED
  BY <1>1, HandleEventKeeps, QueueWordKeeps, NextPhaseKeeps, InputSemaphoreKeeps, WaitKeeps,
     InputWordKeeps DEF Next

LEMMA Inductive == Spec => []IInv
  BY InitIInv, NextIInv, PTL DEF Spec

(* The ring stays a ring, through any number of words and enlargements.    *)
THEOREM TypeCorrect == Spec => []TypeOK
<1>1. IInv => TypeOK
  BY DEF IInv
<1> QED
  BY <1>1, Inductive, PTL

(* There is a word for every signal of the input semaphore.                *)
THEOREM SignalsHaveWords == Spec => []WordForEverySignal
<1>1. IInv => WordForEverySignal
  BY DEF IInv
<1> QED
  BY <1>1, Inductive, PTL

(* While no word has been dropped, times and events are not confused.      *)
THEOREM ReaderStaysInStep == Spec => []ReaderInStep
<1>1. IInv => ReaderInStep
  <2> SUFFICES ASSUME IInv, ~wordLost, NEW i \in 1 .. Len(pending)
               PROVE  taken(pending, i) = meant(pending[i])
    BY DEF ReaderInStep
  <2>1. i \in 1 .. Len(pending) + 1 /\ i <= Len(pending)
    BY PendingType, LenProperties DEF IInv
  <2> QED
    BY <2>1 DEF IInv, Reads, taken
<1> QED
  BY <1>1, Inductive, PTL

-----------------------------------------------------------------------------
(* Every step of the pipeline is a step of the buffer, or leaves it alone. *)
LEMMA BufferStep ==
  IInv /\ [Next]_vars => [Buffer!Lossy]_(Contents(queue))
<1> SUFFICES ASSUME IInv, [Next]_vars PROVE [Buffer!Lossy]_(Contents(queue))
  OBVIOUS
<1>1. Ring(queue) /\ toQueue \in Seq(Word)
  BY DEF IInv, TypeOK
<1>2. CASE queue' = queue
  BY <1>2
<1>3. CASE QueueInputSemaphoreWord
  <2> DEFINE w == Head(toQueue)
  <2>1. w \in Word /\ queue' = enqueue(queue, w)
    BY <1>1, <1>3, AppendHead DEF QueueInputSemaphoreWord
  <2>2. CASE ~Drops(queue)
    <3>1. Contents(queue') = Append(Contents(queue), w)
      BY <1>1, <2>1, <2>2, EnqueueAppends
    <3> QED
      BY <2>1, <3>1 DEF Buffer!Lossy, Buffer!Fifo, Buffer!Put
  <2>3. CASE Drops(queue)
    <3>1. PICK k \in 1 .. Len(Contents(queue)) :
            Contents(queue') = Append(Append(Buffer!Without(Contents(queue), k), Cleared), w)
      BY <1>1, <2>1, <2>3, EnqueueAppends
    <3> QED
      BY <2>1, <3>1 DEF Buffer!Lossy, Buffer!PutLosing
  <2> QED
    BY <2>2, <2>3
<1>4. CASE primitiveInputWord
  <2>1. Contents(queue) # <<>> /\ Contents(queue') = Tail(Contents(queue))
    BY <1>1, <1>4, DequeueTakesFirst DEF primitiveInputWord
  <2> QED
    BY <2>1 DEF Buffer!Lossy, Buffer!Fifo, Buffer!Get
<1> QED
  BY <1>2, <1>3, <1>4 DEF Next, vars, HandleEvent, NextPhase, primitiveInputSemaphore, Wait

(* The queue implements the buffer that may drop a word when it grows.     *)
THEOREM QueueImplementsLossy == Spec => ImplementsLossy
<1>1. Init => Buffer!Init
  BY EmptyQueue DEF Init, Buffer!Init
<1> QED
  BY <1>1, BufferStep, Inductive, PTL DEF Spec, ImplementsLossy, Buffer!LossySpec
=============================================================================
